---- MODULE Spec2Model ----
(***************************************************************************)
(* Ordered-position maintenance and optimistic reconciliation of the       *)
(* kanban board: the task reorder handler (POST /api/tasks/reorder), the   *)
(* column reorder handler (POST /api/columns/reorder), task creation and   *)
(* deletion, and the client's drag handlers in KanbanBoard.tsx.            *)
(***************************************************************************)
EXTENDS Integers, Sequences, FiniteSets, TLC

(***************************************************************************)
(* Bounds                                                                  *)
(***************************************************************************)
\* task ids the store can ever hold
MaxTasks == 5
\* tasks on the board when a behaviour of Spec starts
InitTasks == 3
\* tasks on the board when a behaviour of SpecDates starts
DateTasks == 2
\* tasks on the board when a behaviour of SpecTrip starts
TripTasks == 5
\* tasks on the board when a behaviour of SpecClient starts
ClientTasks == 3
\* persist calls the client has in flight at the same time
MaxCalls == 1
\* gestures and task creations/deletions in one behaviour of SpecClient
MaxOps == 2
\* tasks, and gestures, in a behaviour of SpecGesture
GestureTasks == 2
GestureOps == 1
\* requests the server handles at the same time
MaxReqs == 2

TaskIds == 1..MaxTasks
Cols == {"c1", "c2", "c3"}
ColSeq == <<"c1", "c2", "c3">>
NoCol == "none"
\* a null DateTime
Null == 0

(***************************************************************************)
(* State                                                                   *)
(***************************************************************************)
VARIABLES
  sTasks,   \* Task table: id -> row
  sCols,    \* Column table: id -> row
  now,      \* the server clock read by new Date()
  resp,     \* what the last handled request read, wrote and answered
  reqs,     \* requests in the handler, each at its await point
  trip,     \* a move out and back: the table before it and where the item was
  board,              \* client: the board state of KanbanBoard
  active,             \* client: the id of the item being dragged (dnd-kit's active.id)
  activeColumn,       \* client: the column being dragged, when the gesture drags a column
  dragStartBoardRef,  \* client: the board captured at drag start
  reordering,         \* client: the saving flag
  calls,              \* client: persist calls awaiting their response
  gesture,            \* the gesture in progress or last ended: its start board and release
  done,               \* the persist call that completed last
  ops,                \* gestures and task creations/deletions so far
  budget              \* how many of them, and how many calls in flight, are explored

server == <<sTasks, sCols, now, resp, reqs>>
client == <<board, active, activeColumn, dragStartBoardRef, reordering, calls, gesture,
            done, ops, budget>>
vars == <<sTasks, sCols, now, resp, reqs, trip, board, active, activeColumn,
          dragStartBoardRef, reordering, calls, gesture, done, ops, budget>>

NoTask == [live |-> FALSE, columnId |-> NoCol, order |-> 0, startDate |-> Null, endDate |-> Null]

Range(s) == {s[i] : i \in 1..Len(s)}

\* rows of a column, as prisma's where: { columnId }
TasksIn(tasks, c) == {t \in TaskIds : tasks[t].live /\ tasks[t].columnId = c}

Count(tasks, c) == Cardinality(TasksIn(tasks, c))

(***************************************************************************)
(* POST /api/tasks/reorder                                                 *)
(* A request req carries the body (taskId, columnId, newOrder) and the     *)
(* rows the handler read before the transaction: task and targetColumn.    *)
(***************************************************************************)
oldColumnId(req) == req.task.columnId
oldOrder(req) == req.task.order

\* gt/lt in place of gt/lte: the sibling at the target position is not shifted
ShiftDownWhereLt(tasks, req) ==
  {t \in TasksIn(tasks, req.columnId) :
     tasks[t].order > oldOrder(req) /\ tasks[t].order < req.newOrder}

\* updateMany where { columnId, order: { gt: oldOrder, lte: newOrder } }
ShiftDownWhere(tasks, req) ==
  {t \in TasksIn(tasks, req.columnId) :
     tasks[t].order > oldOrder(req) /\ tasks[t].order <= req.newOrder}

\* gt in place of gte: the sibling at the target position stays where it is
ShiftUpWhereGt(tasks, req) ==
  {t \in TasksIn(tasks, req.columnId) :
     tasks[t].order > req.newOrder /\ tasks[t].order < oldOrder(req)}

\* updateMany where { columnId, order: { gte: newOrder, lt: oldOrder } }
ShiftUpWhere(tasks, req) ==
  {t \in TasksIn(tasks, req.columnId) :
     tasks[t].order >= req.newOrder /\ tasks[t].order < oldOrder(req)}

\* the source column closed at the target position instead of the old one
CloseGapWhereNewOrder(tasks, req) ==
  {t \in TasksIn(tasks, oldColumnId(req)) : tasks[t].order > req.newOrder}

\* updateMany where { columnId: oldColumnId, order: { gt: oldOrder } }
CloseGapWhere(tasks, req) ==
  {t \in TasksIn(tasks, oldColumnId(req)) : tasks[t].order > oldOrder(req)}

\* gt in place of gte: the sibling at the insertion position is not shifted
OpenGapWhereGt(tasks, req) ==
  {t \in TasksIn(tasks, req.columnId) : tasks[t].order > req.newOrder}

\* updateMany where { columnId, order: { gte: newOrder } }
OpenGapWhere(tasks, req) ==
  {t \in TasksIn(tasks, req.columnId) : tasks[t].order >= req.newOrder}

\* data: { order: d } in place of { order: { increment: d } }
UpdateManySet(tasks, where, d) ==
  [t \in TaskIds |-> IF t \in where THEN [tasks[t] EXCEPT !.order = d] ELSE tasks[t]]

\* data: { order: { increment: d } } on the matched rows
UpdateMany(tasks, where, d) ==
  [t \in TaskIds |-> IF t \in where THEN [tasks[t] EXCEPT !.order = @ + d] ELSE tasks[t]]

\* without the else-if branch: endDate is never cleared
dateUpdatesEndNoClear(req, clock, stored) ==
  IF req.targetColumn.isEnd THEN clock ELSE stored

\* dateUpdates.endDate (lines 130-134): decided from the rows read before the
\* transaction; stored is the value the row keeps when the key stays unset
dateUpdatesEnd(req, clock, stored) ==
  IF req.targetColumn.isEnd THEN clock
  ELSE IF req.task.endDate # Null THEN Null
  ELSE stored

\* startDate treated like endDate: cleared when the destination is no start column
dateUpdatesStartCleared(req, clock, stored) ==
  IF req.targetColumn.isStart /\ req.task.startDate = Null THEN clock
  ELSE IF ~req.targetColumn.isStart THEN Null
  ELSE stored

\* dateUpdates.startDate (lines 135-137)
dateUpdatesStart(req, clock, stored) ==
  IF req.targetColumn.isStart /\ req.task.startDate = Null THEN clock
  ELSE stored

\* an endDate that is written once: a task that already has one keeps it
UpdateTaskKeepsEndDate(tasks, req, clock) ==
  [tasks EXCEPT ![req.taskId] =
     [@ EXCEPT !.columnId = req.columnId,
               !.order = req.newOrder,
               !.endDate = IF req.targetColumn.isEnd /\ @ # Null THEN @
                           ELSE dateUpdatesEnd(req, clock, @),
               !.startDate = dateUpdatesStart(req, clock, @)]]

\* tx.task.update where { id: taskId } data { columnId, order: newOrder, ...dateUpdates }
UpdateTask(tasks, req, clock) ==
  [tasks EXCEPT ![req.taskId] =
     [@ EXCEPT !.columnId = req.columnId,
               !.order = req.newOrder,
               !.endDate = dateUpdatesEnd(req, clock, @),
               !.startDate = dateUpdatesStart(req, clock, @)]]

\* the statements the transaction callback awaits, in order
Stmts(req) ==
  IF oldColumnId(req) = req.columnId
  THEN IF req.newOrder > oldOrder(req) THEN <<"down", "update">>
       ELSE IF req.newOrder < oldOrder(req) THEN <<"up", "update">>
       ELSE <<"update">>
  ELSE <<"close", "open", "update">>

\* the rows a statement matches
StmtWhere(tasks, req, s) ==
  CASE s = "down" -> ShiftDownWhere(tasks, req)
    [] s = "up" -> ShiftUpWhere(tasks, req)
    [] s = "close" -> CloseGapWhere(tasks, req)
    [] s = "open" -> OpenGapWhere(tasks, req)
    [] OTHER -> {req.taskId}

\* the final update matching on the source column instead of the task id:
\* every task of that column is moved
ExecMovesColumn(tasks, req, s, clock) ==
  CASE s = "down" -> UpdateMany(tasks, ShiftDownWhere(tasks, req), -1)
    [] s = "up" -> UpdateMany(tasks, ShiftUpWhere(tasks, req), 1)
    [] s = "close" -> UpdateMany(tasks, CloseGapWhere(tasks, req), -1)
    [] s = "open" -> UpdateMany(tasks, OpenGapWhere(tasks, req), 1)
    [] OTHER -> [t \in TaskIds |->
                   IF t \in TasksIn(tasks, oldColumnId(req))
                   THEN [tasks[t] EXCEPT !.columnId = req.columnId, !.order = req.newOrder]
                   ELSE tasks[t]]

\* one statement of the transaction applied to the rows
Exec(tasks, req, s, clock) ==
  CASE s = "down" -> UpdateMany(tasks, ShiftDownWhere(tasks, req), -1)
    [] s = "up" -> UpdateMany(tasks, ShiftUpWhere(tasks, req), 1)
    [] s = "close" -> UpdateMany(tasks, CloseGapWhere(tasks, req), -1)
    [] s = "open" -> UpdateMany(tasks, OpenGapWhere(tasks, req), 1)
    [] OTHER -> UpdateTask(tasks, req, clock)

\* the transaction's view after its first k statements, and the rows written so far
RECURSIVE Run(_, _, _, _)
Run(tasks, req, k, clock) ==
  IF k = 0 THEN [db |-> tasks, written |-> {}]
  ELSE LET before == Run(tasks, req, k - 1, clock)
           s == Stmts(req)[k]
       IN [db |-> Exec(before.db, req, s, clock),
           written |-> before.written \cup StmtWhere(before.db, req, s)]

\* the writes issued on prisma instead of tx: what ran before the throw stays
TxOutcomeNoRollback(tasks, req, failAt, clock) ==
  IF failAt = 0
  THEN Run(tasks, req, Len(Stmts(req)), clock)
  ELSE Run(tasks, req, failAt - 1, clock)

\* prisma.$transaction(async (tx) => ...): every write goes through tx, so a
\* statement that throws (failAt = its position) rolls back the ones before it.
\* failAt = 0: no statement throws and the transaction commits.
TxOutcome(tasks, req, failAt, clock) ==
  IF failAt = 0
  THEN Run(tasks, req, Len(Stmts(req)), clock)
  ELSE [db |-> tasks, written |-> Run(tasks, req, failAt - 1, clock).written]

\* the update of a row that no longer exists throws
MustFail(tasks, req) == ~tasks[req.taskId].live

\* the positions a caller may ask for: 0..n-1 inside the item's own column,
\* 0..n (n = insertion at the end) in another column
InRange(tasks, taskId, columnId, newOrder) ==
  IF tasks[taskId].columnId = columnId
  THEN newOrder \in 0..(Count(tasks, columnId) - 1)
  ELSE newOrder \in 0..Count(tasks, columnId)

NoColRow == [live |-> FALSE, order |-> 0, isStart |-> FALSE, isEnd |-> FALSE]

NoResp == [op |-> "none", status |-> 0, taskId |-> 0, columnId |-> NoCol, newOrder |-> 0,
           task |-> NoTask, written |-> {}, failAt |-> 0, body |-> "none"]

\* the flags read from the column the task is leaving, not the one it enters
ReadReqSourceColumn(tasks, cols, taskId, columnId, newOrder) ==
  [taskId |-> taskId, columnId |-> columnId, newOrder |-> newOrder,
   task |-> tasks[taskId], targetColumn |-> cols[tasks[taskId].columnId]]

\* the request as the handler holds it after its two reads (lines 18-54)
ReadReq(tasks, cols, taskId, columnId, newOrder) ==
  [taskId |-> taskId, columnId |-> columnId, newOrder |-> newOrder,
   task |-> tasks[taskId], targetColumn |-> cols[columnId]]

\* what the answer's JSON is: the board with its columns and their tasks
\* (lines 150-170), or an error object (lines 171-176)
ReorderBody(status) == IF status = 200 THEN "board" ELSE "error"

ReorderResp(req, status, written, failAt) ==
  [NoResp EXCEPT !.op = "reorder", !.status = status, !.taskId = req.taskId,
                 !.columnId = req.columnId, !.newOrder = req.newOrder,
                 !.task = req.task, !.written = written, !.failAt = failAt,
                 !.body = ReorderBody(status)]

(***************************************************************************)
(* POST /api/columns/reorder                                               *)
(***************************************************************************)
\* findMany where { boardId, id: { in: columnIds } }
ColumnsFound(cols, columnIds) == {c \in Cols : cols[c].live /\ c \in Range(columnIds)}

\* 400 unless every listed id is a column of the board (lines 10-39)
ColumnsAccepted(cols, columnIds) ==
  Len(columnIds) > 0 /\ Cardinality(ColumnsFound(cols, columnIds)) = Len(columnIds)

\* columnIds.map((id, index) => update { order: index }) in one transaction
ColumnsReordered(cols, columnIds) ==
  [c \in Cols |->
     IF c \in Range(columnIds)
     THEN [cols[c] EXCEPT !.order = (CHOOSE i \in 1..Len(columnIds) : columnIds[i] = c) - 1]
     ELSE cols[c]]

(***************************************************************************)
(* Array helpers of the client (0-based positions, as in the source)       *)
(***************************************************************************)
RemoveAt(a, i) == SubSeq(a, 1, i) \o SubSeq(a, i + 2, Len(a))

\* a.splice(i, 0, x): a position past the end appends
Splice(a, i, x) ==
  LET k == IF i > Len(a) THEN Len(a) ELSE i
  IN SubSeq(a, 1, k) \o <<x>> \o SubSeq(a, k + 1, Len(a))

\* arrayMove of @dnd-kit/sortable
arrayMove(a, from, to) == Splice(RemoveAt(a, from), to, a[from + 1])

\* position of x in a, -1 when absent (findIndex)
IndexOf(a, x) ==
  IF \E i \in 1..Len(a) : a[i] = x
  THEN (CHOOSE i \in 1..Len(a) : a[i] = x /\ \A j \in 1..(i - 1) : a[j] # x) - 1
  ELSE -1

\* ids of a set in ascending order (orderBy: { order: 'asc' }); rows with equal
\* order come in id order
RECURSIVE SortByOrder(_, _, _)
SortByOrder(ids, ord, rank) ==
  IF ids = {} THEN <<>>
  ELSE LET m == CHOOSE x \in ids :
                  \A y \in ids \ {x} :
                    ord[x] < ord[y] \/ (ord[x] = ord[y] /\ rank[x] < rank[y])
       IN <<m>> \o SortByOrder(ids \ {m}, ord, rank)

\* the board's columns as the page loads them
ColumnsByOrder(cols) ==
  SortByOrder({c \in Cols : cols[c].live},
              [c \in Cols |-> cols[c].order], [c \in Cols |-> IndexOf(ColSeq, c)])

\* a column's tasks as the page loads them
TasksByOrder(tasks, c) ==
  SortByOrder(TasksIn(tasks, c), [t \in TaskIds |-> tasks[t].order], [t \in TaskIds |-> t])

(***************************************************************************)
(* Initial states                                                          *)
(***************************************************************************)
\* the board every new user gets: To Do (isStart), In Progress, Done (isEnd)
DefaultFlags ==
  [c \in Cols |-> [isStart |-> (c = "c1"), isEnd |-> (c = "c3")]]

\* a board whose owner flagged one column as both start and end
BothFlags ==
  [c \in Cols |-> [isStart |-> (c = "c2"), isEnd |-> (c \in {"c2", "c3"})]]

\* a board whose owner cleared every flag
NoFlags ==
  [c \in Cols |-> [isStart |-> FALSE, isEnd |-> FALSE]]

FlagConfigs == {DefaultFlags, BothFlags}

InitCols(flags) ==
  [c \in Cols |-> [live |-> TRUE, order |-> IndexOf(ColSeq, c),
                   isStart |-> flags[c].isStart, isEnd |-> flags[c].isEnd]]

\* tasks 1..n created one after the other, task t in column place[t]:
\* order = max + 1, startDate set when the column is a start column
InitTaskRows(n, place, cols, clock) ==
  [t \in TaskIds |->
     IF t \in 1..n
     THEN [live |-> TRUE, columnId |-> place[t],
           order |-> Cardinality({u \in 1..(t - 1) : place[u] = place[t]}),
           startDate |-> IF cols[place[t]].isStart THEN clock ELSE Null,
           endDate |-> Null]
     ELSE NoTask]

IdleReq == [pc |-> "idle", taskId |-> 0, columnId |-> NoCol, newOrder |-> 0,
            task |-> NoTask, targetColumn |-> NoColRow]

(***************************************************************************)
(* The client's board (KanbanBoard.tsx)                                    *)
(***************************************************************************)
\* a dnd-kit id: a task's or a column's
TaskRef(t) == [kind |-> "task", t |-> t, c |-> NoCol]
ColRef(c) == [kind |-> "column", t |-> 0, c |-> c]
NoRef == [kind |-> "none", t |-> 0, c |-> NoCol]

\* dragStartBoardRef.current = null
NullBoard == [isNull |-> TRUE, columns |-> <<>>]

\* a behaviour without client operations
NoBudget == [ops |-> 0, calls |-> 0]

NoGesture == [snap |-> NullBoard, over |-> NoRef, called |-> FALSE]

NoDone == [kind |-> "none", ok |-> FALSE, snap |-> NullBoard]

\* a task as the client holds it; a DateTime arrives as String(date) or null
ClientTask(tasks, t) ==
  [id |-> t, order |-> tasks[t].order, columnId |-> tasks[t].columnId,
   startDate |-> tasks[t].startDate, endDate |-> tasks[t].endDate]

\* the page's query: columns by order, each with its tasks by order
LoadBoard(tasks, cols) ==
  LET cs == ColumnsByOrder(cols)
  IN [isNull |-> FALSE,
      columns |-> [i \in 1..Len(cs) |->
                     [id |-> cs[i], order |-> cols[cs[i]].order,
                      tasks |-> LET ts == TasksByOrder(tasks, cs[i])
                                IN [j \in 1..Len(ts) |-> ClientTask(tasks, ts[j])]]]]

NoTrip == [phase |-> "none", base |-> [t \in TaskIds |-> NoTask], taskId |-> 0,
           columnId |-> NoCol, newOrder |-> 0]

\* the state after the board and n tasks are created; loaded: the page has
\* rendered the board into the client, else no client holds it yet; limits: how
\* many client operations and calls in flight a behaviour explores
InitWith(flagSets, n, loaded, limits) ==
  /\ now = 1
  /\ \E flags \in flagSets : sCols = InitCols(flags)
  /\ \E place \in [1..n -> Cols] : sTasks = InitTaskRows(n, place, sCols, now)
  /\ resp = NoResp
  /\ reqs = [r \in 1..MaxReqs |-> IdleReq]
  /\ trip = NoTrip
  /\ board = IF loaded THEN LoadBoard(sTasks, sCols) ELSE NullBoard
  /\ active = NoRef
  /\ activeColumn = NoCol
  /\ dragStartBoardRef = NullBoard
  /\ reordering = FALSE
  /\ calls = <<>>
  /\ gesture = NoGesture
  /\ done = NoDone
  /\ ops = 0
  /\ budget = limits

\* positions only: no column is flagged, so no move touches a timestamp
Init == InitWith({NoFlags}, InitTasks, FALSE, NoBudget)

\* flagged columns
InitDates == InitWith(FlagConfigs, DateTasks, FALSE, NoBudget)

(***************************************************************************)
(* Requests handled one at a time                                          *)
(***************************************************************************)
\* the destination is not looked up: a found task is moved wherever it is sent
ReorderTaskNotFoundMoves(taskId, columnId) ==
  /\ ~sTasks[taskId].live \/ ~sCols[columnId].live
  /\ IF sTasks[taskId].live
     THEN /\ sTasks' = [sTasks EXCEPT ![taskId].columnId = columnId]
          /\ resp' = [NoResp EXCEPT !.op = "reorder", !.status = 200, !.taskId = taskId,
                                    !.columnId = columnId]
     ELSE /\ sTasks' = sTasks
          /\ resp' = [NoResp EXCEPT !.op = "reorder", !.status = 404, !.taskId = taskId,
                                    !.columnId = columnId]
  /\ UNCHANGED <<sCols, now, reqs, trip, client>>

\* POST /api/tasks/reorder, lines 29-51: the task or the column is not found
ReorderTaskNotFound(taskId, columnId) ==
  /\ ~sTasks[taskId].live \/ ~sCols[columnId].live
  /\ resp' = [NoResp EXCEPT !.op = "reorder", !.status = 404, !.taskId = taskId,
                            !.columnId = columnId]
  /\ UNCHANGED <<sTasks, sCols, now, reqs, trip, client>>

\* a handler that answers 200 without writing when the task is already at the
\* requested position
ReorderedSkipsNoop(taskId, columnId, newOrder) ==
  /\ sTasks[taskId].live /\ sCols[columnId].live
  /\ LET req == ReadReq(sTasks, sCols, taskId, columnId, newOrder)
         out == TxOutcome(sTasks, req, 0, now)
         noop == oldColumnId(req) = columnId /\ oldOrder(req) = newOrder
     IN /\ sTasks' = IF noop THEN sTasks ELSE out.db
        /\ resp' = ReorderResp(req, 200, IF noop THEN {} ELSE out.written, 0)
  /\ UNCHANGED <<sCols, now, reqs>>

\* POST /api/tasks/reorder, lines 53-170: the transaction commits
Reordered(taskId, columnId, newOrder) ==
  /\ sTasks[taskId].live /\ sCols[columnId].live
  /\ LET req == ReadReq(sTasks, sCols, taskId, columnId, newOrder)
         out == TxOutcome(sTasks, req, 0, now)
     IN /\ sTasks' = out.db
        /\ resp' = ReorderResp(req, 200, out.written, 0)
  /\ UNCHANGED <<sCols, now, reqs>>

\* a handler that stamps startDate on every move into a start-flagged column
ReorderTaskRestamps(taskId, columnId, newOrder) ==
  /\ sTasks[taskId].live /\ sCols[columnId].live
  /\ InRange(sTasks, taskId, columnId, newOrder)
  /\ LET req == ReadReq(sTasks, sCols, taskId, columnId, newOrder)
         out == TxOutcome(sTasks, req, 0, now)
     IN /\ sTasks' = [out.db EXCEPT ![taskId].startDate =
                                       IF sCols[columnId].isStart THEN now ELSE @]
        /\ resp' = ReorderResp(req, 200, out.written, 0)
  /\ UNCHANGED <<sCols, now, reqs, trip, client>>

\* a reorder request with a position inside the destination's range
ReorderTask(taskId, columnId, newOrder) ==
  /\ sTasks[taskId].live
  /\ InRange(sTasks, taskId, columnId, newOrder)
  /\ Reordered(taskId, columnId, newOrder)
  /\ UNCHANGED <<trip, client>>

\* POST /api/tasks/reorder, lines 57-147 and 171-176: statement failAt of the
\* transaction throws, the handler answers 500
ReorderTaskFails(taskId, columnId, newOrder, failAt) ==
  /\ sTasks[taskId].live /\ sCols[columnId].live
  /\ InRange(sTasks, taskId, columnId, newOrder)
  /\ LET req == ReadReq(sTasks, sCols, taskId, columnId, newOrder)
         out == TxOutcome(sTasks, req, failAt, now)
     IN /\ failAt \in 1..Len(Stmts(req))
        /\ sTasks' = out.db
        /\ resp' = ReorderResp(req, 500, out.written, failAt)
  /\ UNCHANGED <<sCols, now, reqs, trip, client>>

\* POST /api/columns/reorder with the list the client builds for moving one
\* column to a target index
MoveColumn(columnId, newIndex) ==
  /\ sCols[columnId].live
  /\ LET columns == ColumnsByOrder(sCols)
         oldIndex == IndexOf(columns, columnId)
         columnIds == arrayMove(columns, oldIndex, newIndex)
     IN /\ newIndex \in 0..(Len(columns) - 1)
        /\ oldIndex # newIndex
        /\ ColumnsAccepted(sCols, columnIds)
        /\ sCols' = ColumnsReordered(sCols, columnIds)
        /\ resp' = [NoResp EXCEPT !.op = "columns", !.status = 200, !.columnId = columnId,
                                  !.newOrder = newIndex]
  /\ UNCHANGED <<sTasks, now, reqs, trip, client>>

Indexes == 0..MaxTasks

FailPoints == 1..3

Next ==
  \/ \E t \in TaskIds, c \in Cols, n \in Indexes : ReorderTask(t, c, n)
  \/ \E t \in TaskIds, c \in Cols : ReorderTaskNotFound(t, c)
  \/ \E c \in Cols, i \in 0..(Cardinality(Cols) - 1) : MoveColumn(c, i)

Spec == Init /\ [][Next]_vars

NextDates ==
  \/ \E t \in TaskIds, c \in Cols, n \in Indexes : ReorderTask(t, c, n)
  \/ \E t \in TaskIds, c \in Cols : ReorderTaskNotFound(t, c)

SpecDates == InitDates /\ [][NextDates]_vars

\* transactions that may fail
InitFail == InitWith({DefaultFlags}, DateTasks, FALSE, NoBudget)

NextFail ==
  \/ \E t \in TaskIds, c \in Cols, n \in Indexes : ReorderTask(t, c, n)
  \/ \E t \in TaskIds, c \in Cols, n \in Indexes, k \in FailPoints :
       ReorderTaskFails(t, c, n, k)

SpecFail == InitFail /\ [][NextFail]_vars

(***************************************************************************)
(* A move to another column and back                                       *)
(***************************************************************************)
InitTrip == InitWith({DefaultFlags}, TripTasks, FALSE, NoBudget)

TripOut(taskId, columnId, newOrder) ==
  /\ trip.phase = "none"
  /\ sTasks[taskId].live /\ sTasks[taskId].columnId # columnId
  /\ InRange(sTasks, taskId, columnId, newOrder)
  /\ Reordered(taskId, columnId, newOrder)
  /\ UNCHANGED client
  /\ trip' = [phase |-> "out", base |-> sTasks, taskId |-> taskId,
              columnId |-> columnId, newOrder |-> newOrder]

TripBack ==
  /\ trip.phase = "out"
  /\ Reordered(trip.taskId, trip.base[trip.taskId].columnId, trip.base[trip.taskId].order)
  /\ UNCHANGED client
  /\ trip' = [trip EXCEPT !.phase = "back"]

NextTrip ==
  \/ \E t \in TaskIds, c \in Cols, n \in Indexes : TripOut(t, c, n)
  \/ TripBack

SpecTrip == InitTrip /\ [][NextTrip]_vars

(***************************************************************************)
(* Requests that overlap: each is at one of the handler's await points     *)
(***************************************************************************)
\* lines 18-54: the handler reads the task and the target column, outside the
\* transaction, and keeps oldColumnId and oldOrder from that read
ReqRead(r, taskId, columnId, newOrder) ==
  /\ reqs[r].pc = "idle"
  /\ sTasks[taskId].live /\ sCols[columnId].live
  /\ InRange(sTasks, taskId, columnId, newOrder)
  /\ reqs' = [reqs EXCEPT ![r] =
                [pc |-> "tx", taskId |-> taskId, columnId |-> columnId, newOrder |-> newOrder,
                 task |-> sTasks[taskId], targetColumn |-> sCols[columnId]]]
  /\ UNCHANGED <<sTasks, sCols, now, resp, trip, client>>

\* lines 57-170: the transaction runs on the table as it is now, with the
\* values read before it, and commits; the handler answers and is done
ReqTx(r) ==
  /\ reqs[r].pc = "tx"
  /\ ~MustFail(sTasks, reqs[r])
  /\ LET req == reqs[r]
         out == TxOutcome(sTasks, req, 0, now)
     IN /\ sTasks' = out.db
        /\ resp' = ReorderResp(req, 200, out.written, 0)
  /\ reqs' = [reqs EXCEPT ![r].pc = "done"]
  /\ UNCHANGED <<sCols, now, trip, client>>

NextConc ==
  \/ \E r \in 1..MaxReqs, t \in TaskIds, c \in Cols, n \in Indexes : ReqRead(r, t, c, n)
  \/ \E r \in 1..MaxReqs : ReqTx(r)

SpecConc == Init /\ [][NextConc]_vars

(***************************************************************************)
(* Dense order                                                              *)
(***************************************************************************)
DenseTasks(tasks) ==
  \A c \in Cols : {tasks[t].order : t \in TasksIn(tasks, c)} = 0..(Count(tasks, c) - 1)
                  /\ \A t, u \in TasksIn(tasks, c) : t # u => tasks[t].order # tasks[u].order

DenseCols(cols) ==
  LET live == {c \in Cols : cols[c].live}
  IN /\ {cols[c].order : c \in live} = 0..(Cardinality(live) - 1)
     /\ \A c, d \in live : c # d => cols[c].order # cols[d].order

(***************************************************************************)
(* The client's drag handlers (KanbanBoard.tsx)                            *)
(***************************************************************************)
\* position of task t in a column's tasks, -1 when absent
TaskIndex(tasks, t) ==
  IF \E j \in 1..Len(tasks) : tasks[j].id = t
  THEN (CHOOSE j \in 1..Len(tasks) : tasks[j].id = t) - 1
  ELSE -1

\* position of column c in columns, -1 when absent
ColIndex(columns, c) ==
  IF \E i \in 1..Len(columns) : columns[i].id = c
  THEN (CHOOSE i \in 1..Len(columns) : columns[i].id = c) - 1
  ELSE -1

\* the map left out: every item keeps the order it carried
RenumberKeepsOrder(items) == items

\* .map((t, i) => ({ ...t, order: i }))
Renumber(items) == [i \in 1..Len(items) |-> [items[i] EXCEPT !.order = i - 1]]

\* .filter((t) => t.id !== id)
RECURSIVE FilterOut(_, _)
FilterOut(tasks, t) ==
  IF tasks = <<>> THEN <<>>
  ELSE IF tasks[1].id = t THEN FilterOut(Tail(tasks), t)
  ELSE <<tasks[1]>> \o FilterOut(Tail(tasks), t)

\* the column that is id, else the first column holding task id; NoCol when neither
resolveColumnId(id, columns) ==
  IF id.kind = "column" /\ ColIndex(columns, id.c) # -1 THEN id.c
  ELSE IF id.kind = "task"
          /\ \E i \in 1..Len(columns) : TaskIndex(columns[i].tasks, id.t) # -1
       THEN columns[CHOOSE i \in 1..Len(columns) :
                      /\ TaskIndex(columns[i].tasks, id.t) # -1
                      /\ \A k \in 1..(i - 1) : TaskIndex(columns[k].tasks, id.t) = -1].id
       ELSE NoCol

NoPos == [found |-> FALSE, columnId |-> NoCol, order |-> 0]

\* the index counted from 1 instead of 0
getTaskPositionOneBased(taskId, columns) ==
  IF \E i \in 1..Len(columns) : TaskIndex(columns[i].tasks, taskId) # -1
  THEN LET i == CHOOSE k \in 1..Len(columns) :
                  /\ TaskIndex(columns[k].tasks, taskId) # -1
                  /\ \A m \in 1..(k - 1) : TaskIndex(columns[m].tasks, taskId) = -1
       IN [found |-> TRUE, columnId |-> columns[i].id,
           order |-> TaskIndex(columns[i].tasks, taskId) + 1]
  ELSE NoPos

\* a task's column and index in the board's lists
getTaskPosition(taskId, columns) ==
  IF \E i \in 1..Len(columns) : TaskIndex(columns[i].tasks, taskId) # -1
  THEN LET i == CHOOSE k \in 1..Len(columns) :
                  /\ TaskIndex(columns[k].tasks, taskId) # -1
                  /\ \A m \in 1..(k - 1) : TaskIndex(columns[m].tasks, taskId) = -1
       IN [found |-> TRUE, columnId |-> columns[i].id,
           order |-> TaskIndex(columns[i].tasks, taskId)]
  ELSE NoPos

\* the task leaves activeCol and enters overCol at newIndex; both are renumbered
\* (handleDragOver lines 504-522, computeDragResult lines 639-653)
MoveAcross(b, activeId, activeColId, overColId, newIndex) ==
  LET from == b.columns[ColIndex(b.columns, activeColId) + 1]
      task == from.tasks[TaskIndex(from.tasks, activeId) + 1]
  IN [b EXCEPT !.columns =
        [i \in 1..Len(b.columns) |->
           IF b.columns[i].id = activeColId
           THEN [b.columns[i] EXCEPT !.tasks = Renumber(FilterOut(@, activeId))]
           ELSE IF b.columns[i].id = overColId
           THEN [b.columns[i] EXCEPT
                   !.tasks = Renumber(Splice(@, newIndex, [task EXCEPT !.columnId = overColId]))]
           ELSE b.columns[i]]]

\* the position in overCol the drop or hover aims at: the over task's index, else the end
TargetIndex(b, overColId, overId) ==
  LET tasks == b.columns[ColIndex(b.columns, overColId) + 1].tasks
      overTaskIndex == IF overId.kind = "task" THEN TaskIndex(tasks, overId.t) ELSE -1
  IN IF overTaskIndex # -1 THEN overTaskIndex ELSE Len(tasks)

\* the setBoard updater of handleDragOver (lines 477-525)
DragOverBoard(prevBoard, activeId, overId) ==
  LET activeColId == resolveColumnId(activeId, prevBoard.columns)
      overColId == resolveColumnId(overId, prevBoard.columns)
  IN IF activeColId = NoCol \/ overColId = NoCol THEN prevBoard
     ELSE IF activeColId = overColId THEN prevBoard
     ELSE IF activeId.kind # "task" THEN prevBoard
     ELSE MoveAcross(prevBoard, activeId.t, activeColId, overColId,
                     TargetIndex(prevBoard, overColId, overId))

\* the position read from the board before the drop is applied
computeDragResultStalePos(baseBoard, activeId, overId) ==
  LET activeColId == resolveColumnId(activeId, baseBoard.columns)
      overColId == resolveColumnId(overId, baseBoard.columns)
      none == [nextBoard |-> baseBoard, finalPos |-> NoPos]
  IN IF activeColId = NoCol \/ overColId = NoCol THEN none
     ELSE IF activeId.kind # "task" THEN none
     ELSE
       LET activeCol == baseBoard.columns[ColIndex(baseBoard.columns, activeColId) + 1]
           oldIndex == TaskIndex(activeCol.tasks, activeId.t)
           newIndex == TargetIndex(baseBoard, overColId, overId)
           nextBoard ==
             IF activeColId = overColId
             THEN IF oldIndex # newIndex
                  THEN [baseBoard EXCEPT !.columns =
                          [i \in 1..Len(baseBoard.columns) |->
                             IF baseBoard.columns[i].id # activeColId THEN baseBoard.columns[i]
                             ELSE [baseBoard.columns[i] EXCEPT
                                     !.tasks = Renumber(arrayMove(@, oldIndex, newIndex))]]]
                  ELSE baseBoard
             ELSE MoveAcross(baseBoard, activeId.t, activeColId, overColId, newIndex)
       IN [nextBoard |-> nextBoard,
           finalPos |-> getTaskPosition(activeId.t, baseBoard.columns)]

\* computeDragResult (lines 601-657)
computeDragResult(baseBoard, activeId, overId) ==
  LET activeColId == resolveColumnId(activeId, baseBoard.columns)
      overColId == resolveColumnId(overId, baseBoard.columns)
      none == [nextBoard |-> baseBoard, finalPos |-> NoPos]
  IN IF activeColId = NoCol \/ overColId = NoCol THEN none
     ELSE IF activeId.kind # "task" THEN none
     ELSE
       LET activeCol == baseBoard.columns[ColIndex(baseBoard.columns, activeColId) + 1]
           oldIndex == TaskIndex(activeCol.tasks, activeId.t)
           newIndex == TargetIndex(baseBoard, overColId, overId)
           nextBoard ==
             IF activeColId = overColId
             THEN IF oldIndex # newIndex
                  THEN [baseBoard EXCEPT !.columns =
                          [i \in 1..Len(baseBoard.columns) |->
                             IF baseBoard.columns[i].id # activeColId THEN baseBoard.columns[i]
                             ELSE [baseBoard.columns[i] EXCEPT
                                     !.tasks = Renumber(arrayMove(@, oldIndex, newIndex))]]]
                  ELSE baseBoard
             ELSE MoveAcross(baseBoard, activeId.t, activeColId, overColId, newIndex)
       IN [nextBoard |-> nextBoard,
           finalPos |-> getTaskPosition(activeId.t, nextBoard.columns)]

\* every task id on the client's board
BoardTasks(b) ==
  UNION {{b.columns[i].tasks[j].id : j \in 1..Len(b.columns[i].tasks)} : i \in 1..Len(b.columns)}

\* what a drag can start on or be over: a task or a column of the board
Refs(b) ==
  {TaskRef(t) : t \in BoardTasks(b)} \cup {ColRef(b.columns[i].id) : i \in 1..Len(b.columns)}

NoCall == [kind |-> "none", taskId |-> 0, columnId |-> NoCol, newOrder |-> 0,
           columnIds |-> <<>>, stage |-> "sent", status |-> 0, snap |-> NullBoard]

\* handleDragStart (lines 445-465)
handleDragStart(id) ==
  /\ active = NoRef
  /\ ops < budget.ops
  /\ id \in Refs(board)
  /\ dragStartBoardRef' = board
  /\ active' = id
  /\ activeColumn' = IF id.kind = "column" THEN id.c ELSE NoCol
  /\ gesture' = [snap |-> board, over |-> NoRef, called |-> FALSE]
  /\ ops' = ops + 1
  /\ UNCHANGED <<board, reordering, calls, done, budget, server, trip>>

\* a hover that persists what it predicts
handleDragOverPersists(overId) ==
  /\ active # NoRef
  /\ overId \in Refs(board) \cup {NoRef}
  /\ board' = IF overId = NoRef \/ activeColumn # NoCol
              THEN board
              ELSE DragOverBoard(board, active, overId)
  /\ calls' = IF board' # board /\ Len(calls) < budget.calls
              THEN Append(calls, [NoCall EXCEPT !.kind = "task", !.taskId = active.t,
                                    !.columnId = getTaskPosition(active.t, board'.columns).columnId,
                                    !.newOrder = getTaskPosition(active.t, board'.columns).order,
                                    !.snap = gesture.snap])
              ELSE calls
  /\ UNCHANGED <<active, activeColumn, dragStartBoardRef, reordering, gesture, done,
                 ops, budget, server, trip>>

\* handleDragOver (lines 467-532): a hover event over a task, a column or nothing
handleDragOver(overId) ==
  /\ active # NoRef
  /\ overId \in Refs(board) \cup {NoRef}
  /\ board' = IF overId = NoRef \/ activeColumn # NoCol
              THEN board
              ELSE DragOverBoard(board, active, overId)
  /\ UNCHANGED <<active, activeColumn, dragStartBoardRef, reordering, calls, gesture, done,
                 ops, budget, server, trip>>

\* the gesture is over: what every path of handleDragEnd does
EndGesture(overId, called) ==
  /\ active' = NoRef
  /\ activeColumn' = NoCol
  /\ gesture' = [gesture EXCEPT !.over = overId, !.called = called]
  /\ UNCHANGED <<done, ops, budget, server, trip>>

\* a column drop that persists the column list whether or not the column moved
handleDragEndColumnAlwaysCalls(overId) ==
  /\ active # NoRef /\ activeColumn # NoCol
  /\ overId \in Refs(board) \cup {NoRef}
  /\ LET overColId == resolveColumnId(overId, board.columns)
         oldIndex == ColIndex(board.columns, active.c)
         newIndex == ColIndex(board.columns, overColId)
         moves == /\ overId # NoRef /\ overId # active /\ overColId # NoCol
                  /\ oldIndex # -1 /\ newIndex # -1 /\ oldIndex # newIndex
         newColumns == Renumber(arrayMove(board.columns, oldIndex, newIndex))
     IN IF moves
        THEN /\ Len(calls) < budget.calls
             /\ board' = [board EXCEPT !.columns = newColumns]
             /\ calls' = Append(calls, [NoCall EXCEPT !.kind = "column",
                                          !.columnIds = [i \in 1..Len(newColumns) |-> newColumns[i].id],
                                          !.snap = gesture.snap])
             /\ UNCHANGED <<dragStartBoardRef, reordering>>
             /\ EndGesture(overId, TRUE)
        ELSE /\ Len(calls) < budget.calls
             /\ calls' = Append(calls, [NoCall EXCEPT !.kind = "column",
                                          !.columnIds = [i \in 1..Len(board.columns) |-> board.columns[i].id],
                                          !.snap = gesture.snap])
             /\ UNCHANGED <<board, dragStartBoardRef, reordering>>
             /\ EndGesture(overId, FALSE)

\* handleDragEnd, column branch (lines 537-583), up to the fetch
handleDragEndColumn(overId) ==
  /\ active # NoRef /\ activeColumn # NoCol
  /\ overId \in Refs(board) \cup {NoRef}
  /\ LET overColId == resolveColumnId(overId, board.columns)
         oldIndex == ColIndex(board.columns, active.c)
         newIndex == ColIndex(board.columns, overColId)
         moves == /\ overId # NoRef /\ overId # active /\ overColId # NoCol
                  /\ oldIndex # -1 /\ newIndex # -1 /\ oldIndex # newIndex
         newColumns == Renumber(arrayMove(board.columns, oldIndex, newIndex))
     IN IF moves
        THEN /\ Len(calls) < budget.calls
             /\ board' = [board EXCEPT !.columns = newColumns]
             /\ calls' = Append(calls, [NoCall EXCEPT !.kind = "column",
                                          !.columnIds = [i \in 1..Len(newColumns) |-> newColumns[i].id],
                                          !.snap = gesture.snap])
             /\ UNCHANGED <<dragStartBoardRef, reordering>>
             /\ EndGesture(overId, TRUE)
        ELSE /\ dragStartBoardRef' = NullBoard
             /\ UNCHANGED <<board, calls, reordering>>
             /\ EndGesture(overId, FALSE)

\* handleDragEnd, task branch (lines 585-692), up to the fetch
handleDragEndTask(overId) ==
  /\ active # NoRef /\ activeColumn = NoCol
  /\ overId \in Refs(board) \cup {NoRef}
  /\ IF overId = NoRef
     THEN /\ board' = IF ~dragStartBoardRef.isNull THEN dragStartBoardRef ELSE board
          /\ dragStartBoardRef' = NullBoard
          /\ UNCHANGED <<calls, reordering>>
          /\ EndGesture(overId, FALSE)
     ELSE LET result == computeDragResult(board, active, overId)
              finalPosition == result.finalPos
              startBoard == dragStartBoardRef
              startPos == IF startBoard.isNull THEN NoPos
                          ELSE getTaskPosition(active.t, startBoard.columns)
              unchanged == /\ ~startBoard.isNull
                           /\ startPos.found
                           /\ startPos.columnId = finalPosition.columnId
                           /\ startPos.order = finalPosition.order
          IN /\ board' = result.nextBoard
             /\ IF ~finalPosition.found \/ unchanged
                THEN /\ dragStartBoardRef' = NullBoard
                     /\ UNCHANGED <<calls, reordering>>
                     /\ EndGesture(overId, FALSE)
                ELSE /\ Len(calls) < budget.calls
                     /\ reordering' = TRUE
                     /\ calls' = Append(calls, [NoCall EXCEPT !.kind = "task",
                                                  !.taskId = active.t,
                                                  !.columnId = finalPosition.columnId,
                                                  !.newOrder = finalPosition.order,
                                                  !.snap = gesture.snap])
                     /\ UNCHANGED dragStartBoardRef
                     /\ EndGesture(overId, TRUE)

\* the server handles a persist call: POST /api/tasks/reorder or /api/columns/reorder
ServeCall(i) ==
  /\ i \in 1..Len(calls)
  /\ calls[i].stage = "sent"
  /\ LET call == calls[i]
     IN IF call.kind = "task"
        THEN IF sTasks[call.taskId].live /\ sCols[call.columnId].live
             THEN LET req == ReadReq(sTasks, sCols, call.taskId, call.columnId, call.newOrder)
                      out == TxOutcome(sTasks, req, 0, now)
                  IN /\ sTasks' = out.db
                     /\ resp' = ReorderResp(req, 200, out.written, 0)
                     /\ calls' = [calls EXCEPT ![i].stage = "served", ![i].status = 200]
                     /\ UNCHANGED sCols
             ELSE /\ resp' = [NoResp EXCEPT !.op = "reorder", !.status = 404,
                                            !.taskId = call.taskId, !.columnId = call.columnId]
                  /\ calls' = [calls EXCEPT ![i].stage = "served", ![i].status = 404]
                  /\ UNCHANGED <<sTasks, sCols>>
        ELSE IF ColumnsAccepted(sCols, call.columnIds)
             THEN /\ sCols' = ColumnsReordered(sCols, call.columnIds)
                  /\ resp' = [NoResp EXCEPT !.op = "columns", !.status = 200]
                  /\ calls' = [calls EXCEPT ![i].stage = "served", ![i].status = 200]
                  /\ UNCHANGED sTasks
             ELSE /\ resp' = [NoResp EXCEPT !.op = "columns", !.status = 400]
                  /\ calls' = [calls EXCEPT ![i].stage = "served", ![i].status = 400]
                  /\ UNCHANGED <<sTasks, sCols>>
  /\ UNCHANGED <<now, reqs, trip, board, active, activeColumn, dragStartBoardRef, reordering,
                 gesture, done, ops, budget>>

\* the server fails on a persist call (a storage error: the catch answers 500)
ServeCallFails(i) ==
  /\ i \in 1..Len(calls)
  /\ calls[i].stage = "sent"
  /\ calls' = [calls EXCEPT ![i].stage = "served", ![i].status = 500]
  /\ resp' = [NoResp EXCEPT !.op = IF calls[i].kind = "task" THEN "reorder" ELSE "columns",
                            !.status = 500]
  /\ UNCHANGED <<sTasks, sCols, now, reqs, trip, board, active, activeColumn,
                 dragStartBoardRef, reordering, gesture, done, ops, budget>>

\* the body of a successful reorder response is the board (route.ts lines 150-170),
\* which has no startDate or endDate key: updatedTask.startDate is undefined
updatedTaskStartDate(call) == Null
updatedTaskEndDate(call) == Null

\* lines 697-711: the date fields of the moved task are taken from the response
MergeDates(b, call) ==
  [b EXCEPT !.columns =
     [i \in 1..Len(b.columns) |->
        [b.columns[i] EXCEPT !.tasks =
           [j \in 1..Len(b.columns[i].tasks) |->
              IF b.columns[i].tasks[j].id = call.taskId
              THEN [b.columns[i].tasks[j] EXCEPT !.startDate = updatedTaskStartDate(call),
                                                 !.endDate = updatedTaskEndDate(call)]
              ELSE b.columns[i].tasks[j]]]]]

\* lines 570-578 and 715-723: setBoard(dragStartBoardRef.current) when it is set
RolledBack(b) == IF ~dragStartBoardRef.isNull THEN dragStartBoardRef ELSE b

\* the continuation of handleDragEnd after a response with response.ok
CallOk(i) ==
  /\ i \in 1..Len(calls)
  /\ calls[i].stage = "served" /\ calls[i].status = 200
  /\ board' = IF calls[i].kind = "task" THEN MergeDates(board, calls[i]) ELSE board
  /\ reordering' = IF calls[i].kind = "task" THEN FALSE ELSE reordering
  /\ dragStartBoardRef' = NullBoard
  /\ calls' = RemoveAt(calls, i - 1)
  /\ done' = [kind |-> calls[i].kind, ok |-> TRUE, snap |-> calls[i].snap]
  /\ UNCHANGED <<active, activeColumn, gesture, ops, budget, server, trip>>

\* the continuation of handleDragEnd after a response that is not ok, or after
\* fetch rejected because the request did not reach the server
CallFailed(i) ==
  /\ i \in 1..Len(calls)
  /\ calls[i].stage = "sent" \/ calls[i].status # 200
  /\ board' = RolledBack(board)
  /\ reordering' = IF calls[i].kind = "task" THEN FALSE ELSE reordering
  /\ dragStartBoardRef' = NullBoard
  /\ calls' = RemoveAt(calls, i - 1)
  /\ done' = [kind |-> calls[i].kind, ok |-> FALSE, snap |-> calls[i].snap]
  /\ UNCHANGED <<active, activeColumn, gesture, ops, budget, server, trip>>

\* ids are never reused: a new task gets an id above every id in use
FreshId ==
  CHOOSE t \in TaskIds :
    /\ \A u \in t..MaxTasks : ~sTasks[u].live /\ u \notin BoardTasks(board)
    /\ \A u \in TaskIds : (\A v \in u..MaxTasks : ~sTasks[v].live /\ v \notin BoardTasks(board))
                            => t <= u

\* the new order taken as the number of tasks in the column
CreatedRowByCount(tasks, cols, columnId, clock) ==
  [live |-> TRUE, columnId |-> columnId,
   order |-> Count(tasks, columnId),
   startDate |-> IF cols[columnId].isStart THEN clock ELSE Null,
   endDate |-> Null]

\* POST /api/tasks (route.ts lines 141-155): order = last order + 1, startDate when isStart
CreatedRow(tasks, cols, columnId, clock) ==
  [live |-> TRUE, columnId |-> columnId,
   order |-> IF TasksIn(tasks, columnId) = {} THEN 0
             ELSE (CHOOSE m \in {tasks[t].order : t \in TasksIn(tasks, columnId)} :
                     \A t \in TasksIn(tasks, columnId) : tasks[t].order <= m) + 1,
   startDate |-> IF cols[columnId].isStart THEN clock ELSE Null,
   endDate |-> Null]

\* handleCreateTask (lines 833-858) with the server's POST /api/tasks
handleCreateTask(columnId) ==
  /\ active = NoRef
  /\ ops < budget.ops
  /\ sCols[columnId].live
  /\ \E t \in TaskIds : \A u \in t..MaxTasks : ~sTasks[u].live /\ u \notin BoardTasks(board)
  /\ LET t == FreshId
         row == CreatedRow(sTasks, sCols, columnId, now)
     IN /\ sTasks' = [sTasks EXCEPT ![t] = row]
        /\ board' = [board EXCEPT !.columns =
                       [i \in 1..Len(board.columns) |->
                          IF board.columns[i].id = columnId
                          THEN [board.columns[i] EXCEPT
                                  !.tasks = Append(@, ClientTask(sTasks', t))]
                          ELSE board.columns[i]]]
        /\ resp' = [NoResp EXCEPT !.op = "create", !.status = 201, !.taskId = t,
                                  !.columnId = columnId]
  /\ ops' = ops + 1
  /\ UNCHANGED <<sCols, now, reqs, trip, active, activeColumn, dragStartBoardRef, reordering,
                 calls, gesture, done, budget>>

\* handleDeleteTask (lines 864-879) with the server's DELETE /api/tasks/[taskId]
handleDeleteTask(taskId) ==
  /\ active = NoRef
  /\ ops < budget.ops
  /\ taskId \in BoardTasks(board)
  /\ IF sTasks[taskId].live
     THEN /\ sTasks' = [sTasks EXCEPT ![taskId] = NoTask]
          /\ board' = [board EXCEPT !.columns =
                         [i \in 1..Len(board.columns) |->
                            [board.columns[i] EXCEPT !.tasks = FilterOut(@, taskId)]]]
          /\ resp' = [NoResp EXCEPT !.op = "delete", !.status = 200, !.taskId = taskId]
     ELSE /\ resp' = [NoResp EXCEPT !.op = "delete", !.status = 404, !.taskId = taskId]
          /\ UNCHANGED <<sTasks, board>>
  /\ ops' = ops + 1
  /\ UNCHANGED <<sCols, now, reqs, trip, active, activeColumn, dragStartBoardRef, reordering,
                 calls, gesture, done, budget>>

InitClient == InitWith({DefaultFlags}, ClientTasks, TRUE, [ops |-> MaxOps, calls |-> MaxCalls])

NextClient ==
  \/ \E id \in Refs(board) : handleDragStart(id)
  \/ \E over \in Refs(board) \cup {NoRef} : handleDragOver(over)
  \/ \E over \in Refs(board) \cup {NoRef} : handleDragEndColumn(over)
  \/ \E over \in Refs(board) \cup {NoRef} : handleDragEndTask(over)
  \/ \E i \in 1..budget.calls : ServeCall(i)
  \/ \E i \in 1..budget.calls : ServeCallFails(i)
  \/ \E i \in 1..budget.calls : CallOk(i)
  \/ \E i \in 1..budget.calls : CallFailed(i)
  \/ \E c \in Cols : handleCreateTask(c)
  \/ \E t \in TaskIds : handleDeleteTask(t)

SpecClient == InitClient /\ [][NextClient]_vars

(***************************************************************************)
(* Properties                                                              *)
(***************************************************************************)
Moved == resp.op = "reorder" /\ resp.status = 200

C3_AllOrNothing ==
  [][(resp'.op = "reorder" /\ resp'.status # 200) => sTasks' = sTasks]_vars

C3_Witness ==
  /\ resp.op = "reorder" /\ resp.status = 500
  /\ resp.failAt >= 2
  /\ resp.written # {}

\* C4: a reorder to the item's own column and index writes no row and leaves
\* startDate and endDate as they were.
C4_NoopMoveWritesNothing ==
  (Moved /\ resp.task.columnId = resp.columnId /\ resp.task.order = resp.newOrder)
    => /\ resp.written = {}
       /\ sTasks[resp.taskId].startDate = resp.task.startDate
       /\ sTasks[resp.taskId].endDate = resp.task.endDate

\* C5: moving an item from index i of X to a valid index of Y and back to index i
\* of X restores the columnId and order of every task.
C5_RoundTrip ==
  trip.phase = "back" =>
    \A t \in TaskIds : /\ sTasks[t].columnId = trip.base[t].columnId
                       /\ sTasks[t].order = trip.base[t].order

C5_Witness ==
  /\ trip.phase = "back"
  /\ Count(trip.base, trip.base[trip.taskId].columnId) = 3
  /\ Count(trip.base, trip.columnId) = 2
  /\ trip.base[trip.taskId].order = 0
  /\ trip.newOrder = 2

\* C6: after a successful move into an exit-flagged column endDate is set; after a
\* successful move of an item whose endDate was set into a column that is not
\* exit-flagged endDate is null.
C6_EndDate ==
  Moved =>
    /\ sCols[resp.columnId].isEnd => sTasks[resp.taskId].endDate # Null
    /\ (resp.task.endDate # Null /\ ~sCols[resp.columnId].isEnd)
         => sTasks[resp.taskId].endDate = Null

C6_Witness ==
  /\ Moved
  /\ resp.task.endDate # Null
  /\ ~sCols[resp.columnId].isEnd
  /\ sTasks[resp.taskId].endDate = Null

\* C7: a startDate that is set stays set over every later move, and a move into a
\* start-flagged column sets it when it was null.
C7_StartDateMonotonic ==
  [][/\ \A t \in TaskIds :
          (sTasks[t].live /\ sTasks[t].startDate # Null) => sTasks'[t].startDate # Null
     /\ (resp'.op = "reorder" /\ resp'.status = 200 /\ sCols[resp'.columnId].isStart)
          => sTasks'[resp'.taskId].startDate # Null]_vars

C7_Witness ==
  /\ Moved
  /\ resp.task.startDate # Null
  /\ ~sCols[resp.columnId].isStart /\ sCols[resp.columnId].isEnd
  /\ sTasks[resp.taskId].startDate = resp.task.startDate

\* C2: two reorder requests on the same column that overlap in time leave the
\* column's order values exactly 0..n-1 under every interleaving.
C2_ConcurrentDense ==
  (/\ \A r \in 1..MaxReqs : reqs[r].pc = "done"
   /\ \A r, q \in 1..MaxReqs : /\ reqs[r].columnId = reqs[q].columnId
                                /\ reqs[r].task.columnId = reqs[q].columnId)
    => DenseTasks(sTasks)

\* what a board shows: per column its id and order, and its tasks' ids and order
\* values in list sequence
BoardOrder(b) ==
  [i \in 1..Len(b.columns) |->
     [id |-> b.columns[i].id, order |-> b.columns[i].order,
      tasks |-> [j \in 1..Len(b.columns[i].tasks) |->
                   <<b.columns[i].tasks[j].id, b.columns[i].tasks[j].order>>]]]

\* C8: when the persist call of a task gesture or a column gesture fails, the
\* client board after the failure is handled equals the snapshot taken at that
\* gesture's start: same ids in the same sequence in every column, same order values.
C8_RollbackEqualsSnapshot ==
  [][(Len(calls') < Len(calls) /\ ~done'.ok)
       => BoardOrder(board') = BoardOrder(done'.snap)]_vars

\* the client's list of a column is the server's tasks of that column in
\* ascending order, and the client's columns are the server's in ascending order
Converged ==
  /\ [i \in 1..Len(board.columns) |-> board.columns[i].id] = ColumnsByOrder(sCols)
  /\ \A i \in 1..Len(board.columns) :
       LET ts == board.columns[i].tasks
       IN /\ {ts[j].id : j \in 1..Len(ts)} = TasksIn(sTasks, board.columns[i].id)
          /\ \A j, k \in 1..Len(ts) : j < k => sTasks[ts[j].id].order < sTasks[ts[k].id].order

\* C9: for a single client that is the only writer, whenever no persist call is in
\* flight (and no gesture is in progress) the client's id sequence of each column
\* equals the server's tasks of it sorted by order, and the client's column
\* sequence equals the server's columns sorted by order.
C9_ServerClientConverge ==
  (calls = <<>> /\ active = NoRef) => Converged

\* C10: a task released at the (column, index) it had in the gesture-start
\* snapshot causes no network call, and the board ends with the snapshot's id
\* sequence and order values in every column.
C10_NoNetMovementNoCall ==
  [][(/\ active.kind = "task" /\ active' = NoRef /\ gesture'.over # NoRef
      /\ getTaskPosition(active.t, gesture.snap.columns).found
      /\ getTaskPosition(active.t, board'.columns)
           = getTaskPosition(active.t, gesture.snap.columns))
       => /\ calls' = calls
          /\ BoardOrder(board') = BoardOrder(gesture.snap)]_vars

(***************************************************************************)
(* Gestures only: drags and their persist calls                            *)
(***************************************************************************)
NextGesture ==
  \/ \E id \in Refs(board) : handleDragStart(id)
  \/ \E over \in Refs(board) \cup {NoRef} : handleDragOver(over)
  \/ \E over \in Refs(board) \cup {NoRef} : handleDragEndColumn(over)
  \/ \E over \in Refs(board) \cup {NoRef} : handleDragEndTask(over)
  \/ \E i \in 1..budget.calls : ServeCall(i)
  \/ \E i \in 1..budget.calls : ServeCallFails(i)
  \/ \E i \in 1..budget.calls : CallOk(i)
  \/ \E i \in 1..budget.calls : CallFailed(i)

\* one gesture at a time
InitGesture ==
  InitWith({DefaultFlags}, GestureTasks, TRUE, [ops |-> GestureOps, calls |-> GestureOps])

SpecGesture == InitGesture /\ [][NextGesture]_vars

\* a gesture may start while the call of an earlier one is in flight
InitOverlap ==
  InitWith({DefaultFlags}, GestureTasks, TRUE, [ops |-> MaxOps, calls |-> MaxOps])

SpecOverlap == InitOverlap /\ [][NextGesture]_vars

\* where task t is on board b: the (column id, 0-based index) pairs holding it
PlaceOf(b, t) ==
  {<<b.columns[p[1]].id, p[2] - 1>> :
     p \in {q \in (1..Len(b.columns)) \X (1..MaxTasks) :
              /\ q[2] <= Len(b.columns[q[1]].tasks)
              /\ b.columns[q[1]].tasks[q[2]].id = t}}

\* a task gesture is released over a target
Released == active.kind = "task" /\ active' = NoRef /\ gesture'.over # NoRef

\* C11: a task gesture that ends on a target with net movement issues exactly one
\* reorder call, carrying the task id and the task's final (column, index); no
\* other step, the handling of a failed call included, issues a call (no retry).
C11_OneCallPerMove ==
  [][/\ (/\ Released
         /\ PlaceOf(board', active.t) # {}
         /\ PlaceOf(board', active.t) # PlaceOf(gesture.snap, active.t))
          => /\ Len(calls') = Len(calls) + 1
             /\ SubSeq(calls', 1, Len(calls)) = calls
             /\ calls'[Len(calls')].kind = "task"
             /\ calls'[Len(calls')].taskId = active.t
             /\ PlaceOf(board', active.t)
                  = {<<calls'[Len(calls')].columnId, calls'[Len(calls')].newOrder>>}
     /\ Len(calls') > Len(calls)
          => /\ active # NoRef /\ active' = NoRef
             /\ Len(calls') = Len(calls) + 1]_vars

C11_Witness ==
  /\ gesture.called /\ gesture.over # NoRef
  /\ done.kind = "task" /\ ~done.ok
  /\ calls = <<>>
  /\ active = NoRef

\* C12: a task gesture released with no drop target, after any number of hover
\* updates, leaves the client board as the gesture-start snapshot and issues no
\* network call.
C12_CancelRestoresSnapshot ==
  [][(active.kind = "task" /\ active' = NoRef /\ gesture'.over = NoRef)
       => /\ calls' = calls
          /\ BoardOrder(board') = BoardOrder(gesture.snap)]_vars

\* C13: hover updates are prediction only: while a gesture is in progress no step
\* issues a call, and the server's tables change only by serving a call that was
\* already in flight when the step began (the call of an earlier release).
C13_HoverNeverPersists ==
  [][(active # NoRef /\ active' = active)
       => /\ Len(calls') <= Len(calls)
          /\ <<sTasks', sCols'>> # <<sTasks, sCols>>
               => \E i \in 1..Len(calls) :
                    /\ calls[i].stage = "sent"
                    /\ Len(calls') = Len(calls) /\ calls'[i].stage = "served"]_vars

C13_Witness ==
  /\ active.kind = "task"
  /\ BoardOrder(board) # BoardOrder(gesture.snap)
  /\ PlaceOf(board, active.t) # PlaceOf(gesture.snap, active.t)
  /\ calls = <<>>
  /\ resp = NoResp

\* the client's record of task t
TaskOnBoard(b, t) ==
  LET p == CHOOSE q \in (1..Len(b.columns)) \X (1..MaxTasks) :
             /\ q[2] <= Len(b.columns[q[1]].tasks)
             /\ b.columns[q[1]].tasks[q[2]].id = t
  IN b.columns[p[1]].tasks[p[2]]

\* C14: after a successful persist call the moved task's startDate and endDate in
\* the client board equal the values the server stored for it, and the client's
\* ordering of every column is as it was before the response arrived.
C14_DatesMergedFromResponse ==
  [][\A i \in 1..Len(calls) :
       (/\ calls' = RemoveAt(calls, i - 1)
        /\ calls[i].kind = "task" /\ calls[i].stage = "served" /\ calls[i].status = 200
        /\ PlaceOf(board', calls[i].taskId) # {})
         => /\ TaskOnBoard(board', calls[i].taskId).startDate = sTasks[calls[i].taskId].startDate
            /\ TaskOnBoard(board', calls[i].taskId).endDate = sTasks[calls[i].taskId].endDate
            /\ BoardOrder(board') = BoardOrder(board)]_vars

\* C15: a successful reorder answers with the updated item (its new order,
\* columnId, startDate and endDate), not with the column or board tree.
C15_ReturnsUpdatedItem == Moved => resp.body = "task"

(***************************************************************************)
(* Requests that name rows which are gone                                  *)
(***************************************************************************)
\* DELETE /api/columns/[columnId]: the column row is deleted and, by the schema's
\* cascade, its tasks with it; a row of another user's board is as absent to the
\* handlers' ownership-filtered findFirst as a deleted one
DeleteColumn(columnId) ==
  /\ sCols[columnId].live
  /\ sCols' = [sCols EXCEPT ![columnId] = NoColRow]
  /\ sTasks' = [t \in TaskIds |-> IF sTasks[t].live /\ sTasks[t].columnId = columnId
                                  THEN NoTask ELSE sTasks[t]]
  /\ resp' = [NoResp EXCEPT !.op = "deleteColumn", !.status = 200, !.columnId = columnId]
  /\ UNCHANGED <<now, reqs, trip, client>>

NextMissing ==
  \/ \E t \in TaskIds, c \in Cols, n \in Indexes : ReorderTask(t, c, n)
  \/ \E t \in TaskIds, c \in Cols : ReorderTaskNotFound(t, c)
  \/ \E c \in Cols : DeleteColumn(c)

SpecMissing == InitDates /\ [][NextMissing]_vars

\* C16: a reorder whose task is absent (or in another user's board), or whose
\* destination column is, answers 404 and changes no stored order, columnId or
\* timestamp of any task.
C16_NotFoundChangesNothing ==
  [][(/\ resp'.op = "reorder"
      /\ ~sTasks[resp'.taskId].live \/ ~sCols[resp'.columnId].live)
       => /\ resp'.status = 404
          /\ sTasks' = sTasks]_vars

C16_Witness ==
  /\ resp.op = "reorder" /\ resp.status = 404
  /\ sTasks[resp.taskId].live
  /\ ~sCols[resp.columnId].live
  /\ \E t \in TaskIds : sTasks[t].live /\ sTasks[t].startDate # Null

(***************************************************************************)
(* Requests with any index                                                 *)
(***************************************************************************)
\* the indices a request may carry: lines 10-15 only require newOrder to be defined
AnyIndexes == -1..(DateTasks + 1)

\* a reorder request with a position outside the destination's range
ReorderTaskOutOfRange(taskId, columnId, newOrder) ==
  /\ sTasks[taskId].live
  /\ ~InRange(sTasks, taskId, columnId, newOrder)
  /\ Reordered(taskId, columnId, newOrder)
  /\ UNCHANGED <<trip, client>>

NextRange ==
  \/ \E t \in TaskIds, c \in Cols, n \in Indexes : ReorderTask(t, c, n)
  \/ \E t \in TaskIds, c \in Cols, n \in AnyIndexes : ReorderTaskOutOfRange(t, c, n)

SpecRange == InitFail /\ [][NextRange]_vars

\* C17: a reorder whose index is outside the destination's range (negative, or
\* beyond the positions the destination has) answers 400 and changes no stored
\* order, columnId or timestamp.
C17_OutOfRangeRejected ==
  [][(/\ resp'.op = "reorder"
      /\ sTasks[resp'.taskId].live /\ sCols[resp'.columnId].live
      /\ ~InRange(sTasks, resp'.taskId, resp'.columnId, resp'.newOrder))
       => /\ resp'.status = 400
          /\ sTasks' = sTasks]_vars

\* C18: while the persist call for a task is in flight the client issues no second
\* reorder call for the same task: at most one call per task is outstanding.
C18_OneCallPerTaskInFlight ==
  \A i, j \in 1..Len(calls) :
    (i # j /\ calls[i].kind = "task" /\ calls[j].kind = "task")
      => calls[i].taskId # calls[j].taskId

\* the continuation of a fetch runs once its response has arrived; nothing makes
\* the server answer, and nothing makes a fetch without an answer reject
ResponseHandled ==
  \E i \in 1..Len(calls) : calls[i].stage = "served" /\ (CallOk(i) \/ CallFailed(i))

FairSpecGesture == SpecGesture /\ WF_vars(ResponseHandled)

\* C19: every persist call is bounded: once a call is in flight the client
\* eventually has no call in flight and is not saving, also when the server never
\* responds.
C19_PersistCallBounded == (calls # <<>>) ~> (calls = <<>> /\ ~reordering)

(***************************************************************************)
(* POST /api/tasks and DELETE /api/tasks/[taskId], one request at a time   *)
(***************************************************************************)
\* tickets in one "#jira" title
MaxBulk == 2
\* creation requests in one behaviour: each reads the clock, which then moves on
MaxCreates == 3
MaxClock == 2

\* the ids of k new rows
NewIds(tasks, k) ==
  LET top == IF \E t \in TaskIds : tasks[t].live
             THEN CHOOSE t \in TaskIds : tasks[t].live /\ \A u \in TaskIds : tasks[u].live => u <= t
             ELSE 0
  IN (top + 1)..(top + k)

\* POST /api/tasks, lines 140-157: one task
CreateTask(columnId) ==
  /\ sCols[columnId].live
  /\ NewIds(sTasks, 1) \subseteq TaskIds
  /\ now <= MaxCreates
  /\ sTasks' = [t \in TaskIds |-> IF t \in NewIds(sTasks, 1)
                                  THEN CreatedRow(sTasks, sCols, columnId, now)
                                  ELSE sTasks[t]]
  /\ resp' = [NoResp EXCEPT !.op = "create", !.status = 201, !.columnId = columnId,
                            !.written = NewIds(sTasks, 1), !.body = "task"]
  /\ now' = now + 1
  /\ UNCHANGED <<sCols, reqs, trip, client>>

\* POST /api/tasks, lines 68-137: a "#jira" title with k ticket numbers; nextOrder
\* is read once and incremented per ticket
CreateJiraTasks(columnId, k) ==
  /\ sCols[columnId].live
  /\ NewIds(sTasks, k) \subseteq TaskIds
  /\ now <= MaxCreates
  /\ LET first == CHOOSE t \in NewIds(sTasks, k) : \A u \in NewIds(sTasks, k) : t <= u
         row == CreatedRow(sTasks, sCols, columnId, now)
     IN sTasks' = [t \in TaskIds |-> IF t \in NewIds(sTasks, k)
                                     THEN [row EXCEPT !.order = row.order + (t - first)]
                                     ELSE sTasks[t]]
  /\ resp' = [NoResp EXCEPT !.op = "create", !.status = 201, !.columnId = columnId,
                            !.written = NewIds(sTasks, k), !.body = "tasks"]
  /\ now' = now + 1
  /\ UNCHANGED <<sCols, reqs, trip, client>>

\* a delete that closes the gap it leaves: later siblings move up by one
DeleteTaskRenumbers(taskId) ==
  /\ sTasks[taskId].live
  /\ sTasks' = [t \in TaskIds |->
                  IF t = taskId THEN NoTask
                  ELSE IF /\ sTasks[t].live
                          /\ sTasks[t].columnId = sTasks[taskId].columnId
                          /\ sTasks[t].order > sTasks[taskId].order
                       THEN [sTasks[t] EXCEPT !.order = @ - 1]
                       ELSE sTasks[t]]
  /\ resp' = [NoResp EXCEPT !.op = "delete", !.status = 200, !.taskId = taskId,
                            !.columnId = sTasks[taskId].columnId,
                            !.task = sTasks[taskId]]
  /\ UNCHANGED <<sCols, now, reqs, trip, client>>

\* DELETE /api/tasks/[taskId]: the row found by findFirst is deleted, no other
\* row is touched; resp.task keeps the row as it was read
DeleteTask(taskId) ==
  /\ sTasks[taskId].live
  /\ sTasks' = [sTasks EXCEPT ![taskId] = NoTask]
  /\ resp' = [NoResp EXCEPT !.op = "delete", !.status = 200, !.taskId = taskId,
                            !.columnId = sTasks[taskId].columnId,
                            !.task = sTasks[taskId]]
  /\ UNCHANGED <<sCols, now, reqs, trip, client>>

NextCreate ==
  \/ \E c \in Cols : CreateTask(c)
  \/ \E c \in Cols, k \in 1..MaxBulk : CreateJiraTasks(c, k)
  \/ \E t \in TaskIds : DeleteTask(t)

SpecCreate == InitFail /\ [][NextCreate]_vars

\* the order values of column c are 0..n-1
DenseIn(tasks, c) ==
  {tasks[t].order : t \in TasksIn(tasks, c)} = 0..(Count(tasks, c) - 1)

\* the order after the last one of column c, 0 when c is empty
AfterLast(tasks, c) ==
  IF TasksIn(tasks, c) = {} THEN 0
  ELSE (CHOOSE m \in {tasks[t].order : t \in TasksIn(tasks, c)} :
          \A t \in TasksIn(tasks, c) : tasks[t].order <= m) + 1

\* C20: a created task gets order = (maximum order in its column) + 1, or 0 in an
\* empty column; creating in a dense column of n tasks yields order n and leaves it
\* dense; a bulk creation of k tickets assigns k consecutive orders from there; no
\* other task changes.
C20_CreateAppendsAtEnd ==
  [][(resp'.op = "create" /\ resp'.status = 201)
       => LET c == resp'.columnId
              new == resp'.written
          IN /\ new = {t \in TaskIds : sTasks'[t].live /\ ~sTasks[t].live}
             /\ \A t \in new : sTasks'[t].columnId = c
             /\ \A t, u \in new : t # u => sTasks'[t].order # sTasks'[u].order
             /\ {sTasks'[t].order : t \in new}
                  = AfterLast(sTasks, c)..(AfterLast(sTasks, c) + Cardinality(new) - 1)
             /\ DenseIn(sTasks, c)
                  => /\ AfterLast(sTasks, c) = Count(sTasks, c)
                     /\ DenseIn(sTasks', c)
             /\ \A t \in TaskIds \ new : sTasks'[t] = sTasks[t]]_vars

C20_Witness ==
  /\ resp.op = "create"
  /\ Cardinality(resp.written) = MaxBulk
  /\ ~DenseIn(sTasks, resp.columnId)
  /\ \E t \in resp.written : sTasks[t].order >= 3

\* C21: deleting a task removes that row only: every other row keeps its order,
\* columnId and timestamps, so deleting a task that was not the last of a dense
\* column leaves a gap in that column's order values
C21_DeleteRemovesOnlyTheTask ==
  [][(resp'.op = "delete" /\ resp'.status = 200) =>
       /\ sTasks[resp'.taskId].live
       /\ ~sTasks'[resp'.taskId].live
       /\ \A t \in TaskIds \ {resp'.taskId} : sTasks'[t] = sTasks[t]
       /\ LET c == sTasks[resp'.taskId].columnId
          IN (DenseIn(sTasks, c) /\ sTasks[resp'.taskId].order < Count(sTasks, c) - 1)
               => ~DenseIn(sTasks', c)]_vars

\* a task that was not the last of its column has been deleted and the column's
\* order values are no longer 0..n-1
C21_Witness ==
  /\ resp.op = "delete" /\ resp.status = 200
  /\ ~sTasks[resp.taskId].live
  /\ \E t \in TasksIn(sTasks, resp.columnId) : sTasks[t].order > resp.task.order
  /\ ~DenseIn(sTasks, resp.columnId)

\* deletions followed by moves: the only source of gaps is DeleteTask
NextGap ==
  \/ \E t \in TaskIds : DeleteTask(t)
  \/ \E t \in TaskIds, c \in Cols, n \in Indexes : ReorderTask(t, c, n)

SpecGap == Init /\ [][NextGap]_vars

\* C22: a gap left by a deletion lasts only until the next move that touches
\* the column: after a successful reorder, the source column and the
\* destination column have order values exactly 0..n-1
C22_MoveHealsGap ==
  [][(resp'.op = "reorder" /\ resp'.status = 200) =>
       /\ DenseIn(sTasks', resp'.columnId)
       /\ DenseIn(sTasks', resp'.task.columnId)]_vars

\* moves only, on a board without flags: positions and columns, no timestamps
SpecMoves == Init /\ [][NextDates]_vars

\* C23: a move inside one column from oldIndex to targetIndex decrements the
\* siblings with order in (oldIndex, targetIndex] when moving down, increments
\* those with order in [targetIndex, oldIndex) when moving up, gives the moving
\* task targetIndex, and leaves every other row as it was
C23_SameColumnShift ==
  [][(resp'.op = "reorder" /\ resp'.status = 200 /\ resp'.task.columnId = resp'.columnId) =>
       LET m == resp'.taskId
           c == resp'.columnId
           oldIndex == resp'.task.order
           targetIndex == resp'.newOrder
       IN /\ sTasks[m] = resp'.task
          /\ sTasks'[m] = [sTasks[m] EXCEPT !.order = targetIndex]
          /\ \A t \in TaskIds \ {m} :
               sTasks'[t] =
                 IF t \in TasksIn(sTasks, c) /\ oldIndex < sTasks[t].order
                                            /\ sTasks[t].order <= targetIndex
                 THEN [sTasks[t] EXCEPT !.order = @ - 1]
                 ELSE IF t \in TasksIn(sTasks, c) /\ targetIndex <= sTasks[t].order
                                                 /\ sTasks[t].order < oldIndex
                 THEN [sTasks[t] EXCEPT !.order = @ + 1]
                 ELSE sTasks[t]]_vars

\* [A0, B1, C2], B moved to index 0: the column is [B0, A1, C2]
C23_Witness ==
  /\ Moved /\ resp.task.columnId = resp.columnId
  /\ resp.task.order = 1 /\ resp.newOrder = 0
  /\ sTasks[resp.taskId].order = 0
  /\ \E a, b \in TasksIn(sTasks, resp.columnId) \ {resp.taskId} :
       /\ a \in resp.written /\ sTasks[a].order = 1
       /\ b \notin resp.written /\ sTasks[b].order = 2

\* C24: a move to another column decrements the source siblings with order
\* above oldIndex, increments the destination siblings with order at or above
\* targetIndex, gives the moving task the destination column and targetIndex,
\* leaves every other row as it was, and no two tasks of one column end with
\* the same order
C24_CrossColumnShift ==
  [][(resp'.op = "reorder" /\ resp'.status = 200 /\ resp'.task.columnId # resp'.columnId) =>
       LET m == resp'.taskId
           dst == resp'.columnId
           src == resp'.task.columnId
           oldIndex == resp'.task.order
           targetIndex == resp'.newOrder
       IN /\ sTasks[m] = resp'.task
          /\ sTasks'[m] = [sTasks[m] EXCEPT !.columnId = dst, !.order = targetIndex]
          /\ \A t \in TaskIds \ {m} :
               sTasks'[t] =
                 IF t \in TasksIn(sTasks, src) /\ sTasks[t].order > oldIndex
                 THEN [sTasks[t] EXCEPT !.order = @ - 1]
                 ELSE IF t \in TasksIn(sTasks, dst) /\ sTasks[t].order >= targetIndex
                 THEN [sTasks[t] EXCEPT !.order = @ + 1]
                 ELSE sTasks[t]
          /\ \A c \in Cols : \A t, u \in TasksIn(sTasks', c) :
               sTasks'[t].order = sTasks'[u].order => t = u]_vars

\* X = [A0, B1], Y = [C0], A moved to Y at index 1: X = [B0], Y = [C0, A1]
C24_Witness ==
  /\ Moved /\ resp.task.columnId # resp.columnId
  /\ resp.task.order = 0 /\ resp.newOrder = 1
  /\ sTasks[resp.taskId].columnId = resp.columnId /\ sTasks[resp.taskId].order = 1
  /\ \E b \in TasksIn(sTasks, resp.task.columnId) :
       b \in resp.written /\ sTasks[b].order = 0
  /\ \E c \in TasksIn(sTasks, resp.columnId) :
       c \notin resp.written /\ sTasks[c].order = 0

\* the ids of column c of board b, in list sequence
ColumnTaskIds(b, c) ==
  LET ts == b.columns[ColIndex(b.columns, c) + 1].tasks
  IN [j \in 1..Len(ts) |-> ts[j].id]

\* every column's tasks carry order 0..n-1 in list sequence
DenseBoard(b) ==
  \A i \in 1..Len(b.columns) : \A j \in 1..Len(b.columns[i].tasks) :
    b.columns[i].tasks[j].order = j - 1

\* board b shows exactly the rows tasks: the same tasks, each in the column
\* that holds it and with the order it carries
ShowsRows(b, tasks) ==
  /\ BoardTasks(b) = {t \in TaskIds : tasks[t].live}
  /\ \A i \in 1..Len(b.columns) : \A j \in 1..Len(b.columns[i].tasks) :
       LET t == b.columns[i].tasks[j]
       IN tasks[t.id].columnId = b.columns[i].id /\ tasks[t.id].order = t.order

\* board b is what hovering task t makes of snap: the same columns, and in each
\* column the same other tasks in the same sequence
HoverOf(b, snap, t) ==
  /\ ~b.isNull /\ ~snap.isNull
  /\ t \in BoardTasks(b) /\ BoardTasks(b) = BoardTasks(snap)
  /\ Len(b.columns) = Len(snap.columns)
  /\ \A i \in 1..Len(b.columns) :
       /\ b.columns[i].id = snap.columns[i].id
       /\ [j \in 1..Len(FilterOut(b.columns[i].tasks, t)) |->
             FilterOut(b.columns[i].tasks, t)[j].id]
          = [j \in 1..Len(FilterOut(snap.columns[i].tasks, t)) |->
               FilterOut(snap.columns[i].tasks, t)[j].id]

\* a hover event of a task gesture changes the board
Hovered ==
  /\ active.kind = "task" /\ active' = active
  /\ calls' = calls /\ done' = done /\ board' # board

\* the rows the handler leaves when the last call issued is applied to rows pre
AfterLastCall(pre, cs) ==
  LET call == cs[Len(cs)]
      req == ReadReq(pre, sCols, call.taskId, call.columnId, call.newOrder)
  IN TxOutcome(pre, req, 0, now).db

\* one gesture at a time, its call handled by the server: the client's
\* prediction next to the handler's result
NextMirror ==
  \/ \E id \in Refs(board) : handleDragStart(id)
  \/ \E over \in Refs(board) \cup {NoRef} : handleDragOver(over)
  \/ \E over \in Refs(board) \cup {NoRef} : handleDragEndColumn(over)
  \/ \E over \in Refs(board) \cup {NoRef} : handleDragEndTask(over)
  \/ \E i \in 1..budget.calls : ServeCall(i)

SpecMirror == InitGesture /\ [][NextMirror]_vars

\* C25: the client's optimistic reordering mirrors the server's. Hover updates
\* keep the board a hover of the gesture-start board, and when the task is
\* dropped, the gesture-start board being dense and showing the server's rows,
\* the id sequence of every column of the client's board equals the
\* order-sorted sequence the handler produces from those rows and the
\* (taskId, columnId, newOrder) sent
C25_ClientMirrorsServer ==
  [][/\ (Hovered /\ HoverOf(board, gesture.snap, active.t))
          => HoverOf(board', gesture.snap, active.t)
     /\ (/\ Released /\ gesture'.called
         /\ DenseBoard(gesture.snap)
         /\ ShowsRows(gesture.snap, sTasks)
         /\ HoverOf(board, gesture.snap, active.t))
          => \A c \in Cols :
               ColumnTaskIds(board', c) = TasksByOrder(AfterLastCall(sTasks, calls'), c)]_vars

\* a task was hovered into another column and dropped there on a task; the
\* server has handled the call and its rows read back in the client's sequence
C25_Witness ==
  /\ gesture.called /\ gesture.over.kind = "task" /\ active = NoRef
  /\ Len(calls) = 1 /\ calls[1].stage = "served" /\ calls[1].status = 200
  /\ DenseBoard(gesture.snap)
  /\ \E p \in PlaceOf(board, calls[1].taskId), q \in PlaceOf(gesture.snap, calls[1].taskId) :
       p[1] # q[1]
  /\ \A c \in Cols : ColumnTaskIds(board, c) = TasksByOrder(sTasks, c)

\* time passes between requests: new Date() of a later request is later
Tick ==
  /\ now < MaxClock
  /\ now' = now + 1
  /\ UNCHANGED <<sTasks, sCols, resp, reqs, trip, client>>

NextFresh ==
  \/ \E t \in TaskIds, c \in Cols, n \in Indexes : ReorderTask(t, c, n)
  \/ Tick

\* a board whose owner left the end flag on the last column and cleared the
\* start flag: only endDate is ever written
EndFlagOnly ==
  [c \in Cols |-> [isStart |-> FALSE, isEnd |-> (c = "c3")]]

InitFresh == InitWith({EndFlagOnly}, DateTasks, FALSE, NoBudget)

SpecFresh == InitFresh /\ [][NextFresh]_vars

\* C26: every successful move whose destination column is exit-flagged writes
\* the time of the move into endDate, also when endDate was already set and
\* also when the task is reordered inside that column
C26_FreshEndDate ==
  [][(/\ now' = now
      /\ resp'.op = "reorder" /\ resp'.status = 200
      /\ sCols[resp'.columnId].isEnd)
       => sTasks'[resp'.taskId].endDate = now]_vars

\* a task with an earlier endDate was reordered inside the exit-flagged column
\* and carries the later time
C26_Witness ==
  /\ Moved /\ sCols[resp.columnId].isEnd
  /\ resp.task.columnId = resp.columnId
  /\ resp.task.endDate # Null
  /\ resp.task.endDate < sTasks[resp.taskId].endDate
  /\ sTasks[resp.taskId].endDate = now

\* the columns with other flags on column c
WithFlags(cols, c, isStart, isEnd) ==
  [cols EXCEPT ![c].isStart = isStart, ![c].isEnd = isEnd]

\* the moved task's row when the same request meets the same rows and columns cols
MovedRow(tasks, cols, r) ==
  TxOutcome(tasks, ReadReq(tasks, cols, r.taskId, r.columnId, r.newOrder), 0, now).db[r.taskId]

\* C27: the timestamps a move derives depend on the destination column's flags
\* and the task's stored startDate and endDate only: the same move with any
\* other flags on the source column leaves startDate and endDate null or set
\* exactly as this one does
C27_SourceFlagsIrrelevant ==
  [][(/\ resp'.op = "reorder" /\ resp'.status = 200
      /\ resp'.task.columnId # resp'.columnId)
       => \A isStart, isEnd \in BOOLEAN :
            LET other == MovedRow(sTasks, WithFlags(sCols, resp'.task.columnId, isStart, isEnd), resp')
                this == sTasks'[resp'.taskId]
            IN /\ (other.startDate = Null) = (this.startDate = Null)
               /\ (other.endDate = Null) = (this.endDate = Null)]_vars

\* a task with an endDate left the exit-flagged column for an unflagged one:
\* its endDate is cleared and it has no startDate
C27_Witness ==
  /\ Moved /\ resp.task.columnId # resp.columnId
  /\ sCols[resp.task.columnId].isEnd /\ ~sCols[resp.task.columnId].isStart
  /\ ~sCols[resp.columnId].isEnd /\ ~sCols[resp.columnId].isStart
  /\ resp.task.endDate # Null
  /\ sTasks[resp.taskId].endDate = Null
  /\ sTasks[resp.taskId].startDate = resp.task.startDate

\* column gestures only, their calls handled by the server; a hover event
\* during a column gesture returns at once (line 472): a stuttering step
NextColumns ==
  \/ \E c \in Cols : handleDragStart(ColRef(c))
  \/ \E over \in Refs(board) \cup {NoRef} : handleDragEndColumn(over)
  \/ \E i \in 1..budget.calls : ServeCall(i)

SpecColumns == InitOverlap /\ [][NextColumns]_vars

\* C28: a column reorder changes column order values only: every task row
\* stays as it was; and a column gesture released on itself or on no target
\* issues no network call and changes neither the board nor the server
C28_ColumnReorderFrame ==
  [][/\ sCols' # sCols
          => /\ resp'.op = "columns" /\ resp'.status = 200
             /\ sTasks' = sTasks
             /\ \A c \in Cols : sCols'[c] = [sCols[c] EXCEPT !.order = sCols'[c].order]
     /\ (/\ active.kind = "column" /\ active' = NoRef
         /\ gesture'.over \in {NoRef, active})
          => /\ calls' = calls
             /\ board' = board
             /\ server' = server]_vars

\* the server has applied a column reorder, and a later column gesture was
\* released on its own column: no second call, the board as the gesture found it
C28_Witness ==
  /\ resp.op = "columns" /\ resp.status = 200
  /\ \E c \in Cols : sCols[c].order # InitCols(DefaultFlags)[c].order
  /\ \E t \in TaskIds : sTasks[t].live
  /\ ops = 2 /\ active = NoRef
  /\ gesture.over.kind = "column" /\ ~gesture.called
  /\ Len(calls) = 1
  /\ board = gesture.snap

\* C29: a task belongs to exactly one column. No step of a sequence of moves
\* adds or removes a task, every task's columnId names a column of the board,
\* and only a successful move changes a columnId: that of the moving task, to
\* the destination
C29_OneColumnPerTask ==
  [][/\ {t \in TaskIds : sTasks'[t].live} = {t \in TaskIds : sTasks[t].live}
     /\ \A t \in TaskIds :
          sTasks'[t].live => sTasks'[t].columnId \in Cols /\ sCols'[sTasks'[t].columnId].live
     /\ \A t \in TaskIds :
          sTasks'[t].columnId # sTasks[t].columnId
            => /\ resp'.op = "reorder" /\ resp'.status = 200
               /\ t = resp'.taskId
               /\ sTasks[t].columnId = resp'.task.columnId
               /\ sTasks'[t].columnId = resp'.columnId]_vars

\* a task has moved to another column that held tasks, leaving siblings behind;
\* those are still where they were
C29_Witness ==
  /\ Moved /\ resp.task.columnId # resp.columnId
  /\ sTasks[resp.taskId].columnId = resp.columnId
  /\ TasksIn(sTasks, resp.task.columnId) # {}
  /\ TasksIn(sTasks, resp.columnId) # {resp.taskId}
  /\ Cardinality({t \in TaskIds : sTasks[t].live}) = InitTasks

\* the board as the page loads it after one task was deleted: the rows keep
\* their order values, so a column may have a gap
InitHover ==
  /\ now = 1
  /\ sCols = InitCols(DefaultFlags)
  /\ \E place \in [1..ClientTasks -> Cols], d \in 1..ClientTasks :
       sTasks = [InitTaskRows(ClientTasks, place, sCols, now) EXCEPT ![d] = NoTask]
  /\ resp = NoResp
  /\ reqs = [r \in 1..MaxReqs |-> IdleReq]
  /\ trip = NoTrip
  /\ board = LoadBoard(sTasks, sCols)
  /\ active = NoRef
  /\ activeColumn = NoCol
  /\ dragStartBoardRef = NullBoard
  /\ reordering = FALSE
  /\ calls = <<>>
  /\ gesture = NoGesture
  /\ done = NoDone
  /\ ops = 0
  /\ budget = [ops |-> GestureOps, calls |-> GestureOps]

\* task gestures on that board
NextHover ==
  \/ \E t \in BoardTasks(board) : handleDragStart(TaskRef(t))
  \/ \E over \in Refs(board) \cup {NoRef} : handleDragOver(over)
  \/ \E over \in Refs(board) \cup {NoRef} : handleDragEndTask(over)

SpecHover == InitHover /\ [][NextHover]_vars

\* the tasks of one column carry order 0..n-1 in list sequence
DenseList(tasks) == \A j \in 1..Len(tasks) : tasks[j].order = j - 1

\* C30: in the client's board, after every hover update and after the drop
\* computation, each task id appears exactly once across all columns, the
\* moving task's columnId is the id of the column that holds it, and every
\* column the update touched has order values 0..n-1 in list sequence
C30_MirrorWellFormed ==
  [][(Hovered \/ Released) =>
       /\ BoardTasks(board') = BoardTasks(board)
       /\ \A u \in BoardTasks(board') : Cardinality(PlaceOf(board', u)) = 1
       /\ \A i \in 1..Len(board'.columns) :
            /\ \A j \in 1..Len(board'.columns[i].tasks) :
                 board'.columns[i].tasks[j].id = active.t
                   => board'.columns[i].tasks[j].columnId = board'.columns[i].id
            /\ board'.columns[i] # board.columns[i]
                 => DenseList(board'.columns[i].tasks)]_vars

\* a task is being hovered out of a column whose order values had a gap left
\* by a deletion: that column and the one it entered are renumbered
C30_Witness ==
  /\ active.kind = "task" /\ ~gesture.snap.isNull
  /\ \E i \in 1..Len(board.columns) :
       /\ ~DenseList(gesture.snap.columns[i].tasks)
       /\ Len(board.columns[i].tasks) > 0
       /\ Len(board.columns[i].tasks) < Len(gesture.snap.columns[i].tasks)
       /\ DenseList(board.columns[i].tasks)
  /\ \A u \in BoardTasks(board) : Cardinality(PlaceOf(board, u)) = 1

\* C31: the snapshot a failed persist call restores is the one taken at the
\* start of the gesture that issued it, whatever other gestures do meanwhile:
\* the rollback baseline of every call in flight is that call's gesture-start
\* board, and the baseline of a gesture in progress is its own start board
C31_BaselinePerGesture ==
  /\ \A i \in 1..Len(calls) : dragStartBoardRef = calls[i].snap
  /\ active # NoRef => dragStartBoardRef = gesture.snap

\* C32: a move never changes the relative order of the tasks that do not
\* move: two tasks other than the moved one that share a column before and
\* after keep their order relation, and a task in a column that is neither
\* source nor destination keeps its row
C32_OthersKeepRelativeOrder ==
  [][(resp'.op = "reorder" /\ resp'.status = 200) =>
       LET others == {t \in TaskIds \ {resp'.taskId} : sTasks[t].live}
       IN /\ \A a, b \in others :
               (/\ sTasks[a].columnId = sTasks[b].columnId
                /\ sTasks'[a].columnId = sTasks'[b].columnId
                /\ sTasks[a].order < sTasks[b].order)
                 => sTasks'[a].order < sTasks'[b].order
          /\ \A t \in others :
               sTasks[t].columnId \notin {resp'.task.columnId, resp'.columnId}
                 => sTasks'[t] = sTasks[t]]_vars

\* a task was moved to the top of a column in which two siblings were shifted;
\* the two are still in the order they had
C32_Witness ==
  /\ Moved /\ resp.newOrder = 0
  /\ \E a, b \in resp.written \ {resp.taskId} :
       /\ a # b
       /\ sTasks[a].columnId = resp.columnId /\ sTasks[b].columnId = resp.columnId
       /\ sTasks[a].order < sTasks[b].order

(***************************************************************************)
(* PATCH /api/tasks/[taskId]                                               *)
(***************************************************************************)
\* a column of a board of another user: it exists, the caller does not own it
OtherCol == "x1"

\* the order and columnId keys of a request body: present or not, and the value
PatchBodies ==
  [hasOrder : BOOLEAN, order : 0..DateTasks, hasColumnId : BOOLEAN, columnId : Cols \cup {OtherCol}]

\* the task is looked up through column.board.userId (lines 92-101), then
\* prisma.task.update writes every key the body carries (lines 110-119):
\* body.order and body.columnId are stored as sent, no sibling is shifted and
\* the column named is not looked up
PatchTask(taskId, body) ==
  /\ sTasks[taskId].live /\ sTasks[taskId].columnId \in Cols
  /\ sTasks' = [sTasks EXCEPT
                  ![taskId].order = IF body.hasOrder THEN body.order ELSE @,
                  ![taskId].columnId = IF body.hasColumnId THEN body.columnId ELSE @]
  /\ resp' = [NoResp EXCEPT !.op = "patch", !.status = 200, !.taskId = taskId,
                            !.task = sTasks[taskId], !.body = "task"]
  /\ UNCHANGED <<sCols, now, reqs, trip, client>>

\* no task of the caller has this id: 404 (lines 103-108)
PatchTaskNotFound(taskId) ==
  /\ ~(sTasks[taskId].live /\ sTasks[taskId].columnId \in Cols)
  /\ resp' = [NoResp EXCEPT !.op = "patch", !.status = 404, !.taskId = taskId]
  /\ UNCHANGED <<sTasks, sCols, now, reqs, trip, client>>

NextPatch ==
  \/ \E t \in TaskIds, body \in PatchBodies : PatchTask(t, body)
  \/ \E t \in TaskIds : PatchTaskNotFound(t)

SpecPatch == InitFail /\ [][NextPatch]_vars

\* C33: no operation puts a task into a column of a board the caller does not
\* own, and no operation other than the reorder handler changes the order or
\* the columnId of a task: a field update leaves both as they were
C33_OnlyReorderPlacesTasks ==
  [][\A t \in TaskIds :
       sTasks[t].live =>
         /\ sTasks'[t].live => sTasks'[t].columnId \in Cols
         /\ resp'.op # "reorder"
              => /\ sTasks'[t].order = sTasks[t].order
                 /\ sTasks'[t].columnId = sTasks[t].columnId]_vars

(***************************************************************************)
(* POST /api/tasks, requests that overlap                                  *)
(***************************************************************************)
\* lines 117-144: the column and the column's last task are read, outside any
\* transaction; the request holds the order it will store
CreateRead(r, columnId) ==
  /\ reqs[r].pc = "idle"
  /\ sCols[columnId].live
  /\ reqs' = [reqs EXCEPT ![r] =
                [IdleReq EXCEPT !.pc = "create", !.columnId = columnId,
                                !.newOrder = CreatedRow(sTasks, sCols, columnId, now).order,
                                !.targetColumn = sCols[columnId]]]
  /\ UNCHANGED <<sTasks, sCols, now, resp, trip, client>>

\* lines 146-157: prisma.task.create with the order computed from the earlier read
CreateWrite(r) ==
  /\ reqs[r].pc = "create"
  /\ NewIds(sTasks, 1) \subseteq TaskIds
  /\ sTasks' = [t \in TaskIds |->
                  IF t \in NewIds(sTasks, 1)
                  THEN [live |-> TRUE, columnId |-> reqs[r].columnId,
                        order |-> reqs[r].newOrder,
                        startDate |-> IF reqs[r].targetColumn.isStart THEN now ELSE Null,
                        endDate |-> Null]
                  ELSE sTasks[t]]
  /\ resp' = [NoResp EXCEPT !.op = "create", !.status = 201, !.columnId = reqs[r].columnId,
                            !.written = NewIds(sTasks, 1), !.body = "task"]
  /\ reqs' = [reqs EXCEPT ![r].pc = "done"]
  /\ UNCHANGED <<sCols, now, trip, client>>

NextCreateConc ==
  \/ \E r \in 1..MaxReqs, c \in Cols : CreateRead(r, c)
  \/ \E r \in 1..MaxReqs : CreateWrite(r)

SpecCreateConc == InitFail /\ [][NextCreateConc]_vars

\* C34: task creations on one column that overlap in time give every created
\* task an order value of its own in that column
C34_ConcurrentCreatesDistinct ==
  \A t, u \in TaskIds :
    (/\ sTasks[t].live /\ sTasks[u].live
     /\ sTasks[t].columnId = sTasks[u].columnId
     /\ sTasks[t].order = sTasks[u].order) => t = u

\* the columnIds lists a caller may send: the board's columns and a column of
\* another board, in any sequence, with omissions and repetitions
ColumnIdLists ==
  UNION {[1..n -> Cols \cup {OtherCol}] : n \in 1..Cardinality(Cols)}

\* POST /api/columns/reorder with any list (part_003 lines 5-59)
ReorderColumns(columnIds) ==
  /\ IF ColumnsAccepted(sCols, columnIds)
     THEN /\ sCols' = ColumnsReordered(sCols, columnIds)
          /\ resp' = [NoResp EXCEPT !.op = "columns", !.status = 200]
     ELSE /\ sCols' = sCols
          /\ resp' = [NoResp EXCEPT !.op = "columns", !.status = 400]
  /\ UNCHANGED <<sTasks, now, reqs, trip, client>>

NextColumnLists == \E columnIds \in ColumnIdLists : ReorderColumns(columnIds)

SpecColumnLists == InitFail /\ [][NextColumnLists]_vars

\* C35: every column reorder the server accepts leaves the board's columns
\* with order values exactly 0..m-1; a list that omits a column, repeats an
\* id or names a column of another board is rejected and changes no order
C35_AcceptedColumnListIsComplete ==
  [][resp'.op = "columns" =>
       IF resp'.status = 200
       THEN {sCols'[c].order : c \in {d \in Cols : sCols'[d].live}}
              = 0..(Cardinality({d \in Cols : sCols'[d].live}) - 1)
       ELSE sCols' = sCols]_vars

(***************************************************************************)
(* PATCH /api/columns/[columnId]                                           *)
(***************************************************************************)
\* the isStart and isEnd keys of a request body: present or not, and the value
FlagBodies == [hasStart : BOOLEAN, isStart : BOOLEAN, hasEnd : BOOLEAN, isEnd : BOOLEAN]

\* part_003 lines 66-107: the flags the body carries are stored on the column;
\* no task row is written
PatchColumn(columnId, body) ==
  /\ sCols[columnId].live
  /\ sCols' = [sCols EXCEPT
                 ![columnId].isStart = IF body.hasStart THEN body.isStart ELSE @,
                 ![columnId].isEnd = IF body.hasEnd THEN body.isEnd ELSE @]
  /\ resp' = [NoResp EXCEPT !.op = "patchColumn", !.status = 200, !.columnId = columnId]
  /\ UNCHANGED <<sTasks, now, reqs, trip, client>>

\* the owner switches the end flag of columns between moves
NextEndFlags ==
  \/ \E t \in TaskIds, c \in Cols, n \in Indexes : ReorderTask(t, c, n)
  \/ \E c \in Cols, e \in BOOLEAN :
       PatchColumn(c, [hasStart |-> FALSE, isStart |-> FALSE, hasEnd |-> TRUE, isEnd |-> e])

SpecEndFlags == InitFresh /\ [][NextEndFlags]_vars

\* C36: right after a successful move the moved task's endDate is set if and
\* only if the destination column is exit-flagged, whatever endDate the task
\* carried and whatever the flags were when it got it
C36_EndDateIffExitFlag ==
  Moved => ((sTasks[resp.taskId].endDate # Null) = sCols[resp.columnId].isEnd)

\* a task in a column that was exit-flagged after the task arrived, so with no
\* endDate, is reordered inside it and gets one
C36_Witness ==
  /\ Moved /\ resp.task.columnId = resp.columnId
  /\ sCols[resp.columnId].isEnd
  /\ resp.task.endDate = Null
  /\ sTasks[resp.taskId].endDate # Null

(***************************************************************************)
(* startDate over a task's life: creations and moves as time passes        *)
(***************************************************************************)
\* tasks on the board at the start; one more may be created
StartTasks == 1

\* a board whose owner flagged the middle column as the start column only
StartFlagOnly ==
  [c \in Cols |-> [isStart |-> (c = "c2"), isEnd |-> FALSE]]

InitStart == InitWith({StartFlagOnly}, StartTasks, FALSE, NoBudget)

NextStart ==
  \/ \E t \in TaskIds, c \in Cols, n \in Indexes : ReorderTask(t, c, n)
  \/ \E c \in Cols : Cardinality({t \in TaskIds : sTasks[t].live}) <= StartTasks /\ CreateTask(c)
  \/ Tick

SpecStart == InitStart /\ [][NextStart]_vars

\* C37: a task's startDate is assigned at most once: a startDate that is set
\* keeps its value over every later step, moves into start-flagged columns
\* included, and a startDate appears only on a task created in a start-flagged
\* column or on the task a request moves into one
C37_StartDateAssignedOnce ==
  [][\A t \in TaskIds :
       /\ (sTasks[t].live /\ sTasks[t].startDate # Null)
            => sTasks'[t].live /\ sTasks'[t].startDate = sTasks[t].startDate
       /\ (sTasks'[t].live /\ sTasks'[t].startDate # Null
            /\ (~sTasks[t].live \/ sTasks[t].startDate = Null))
            => \/ /\ ~sTasks[t].live /\ resp'.op = "create"
                  /\ sCols[sTasks'[t].columnId].isStart
               \/ /\ sTasks[t].live /\ resp'.op = "reorder" /\ resp'.taskId = t
                  /\ sCols[resp'.columnId].isStart]_vars

\* a task that got its startDate earlier is moved into the start-flagged column
\* again at a later time and keeps the earlier value
C37_Witness ==
  /\ Moved
  /\ sCols[resp.columnId].isStart
  /\ resp.task.columnId # resp.columnId
  /\ resp.task.startDate # Null
  /\ resp.task.startDate < now
  /\ sTasks[resp.taskId].startDate = resp.task.startDate

\* C38: the client's reordering flag is true exactly while at least one reorder
\* call for a task is in flight, also when two such calls overlap and the first
\* finishes before the second
C38_ReorderingWhileInFlight ==
  reordering = (\E i \in 1..Len(calls) : calls[i].kind = "task")

====
